---- MODULE Spec2Model ----
(***************************************************************************)
(* State-machine model of the WoL-Gateway admin panel (src/admin_panel.py):*)
(* the credentials file admin_config.json, the roster file                 *)
(* WOL_Brige.config, one browser session and the request handlers of the   *)
(* admin blueprint.  One action per handler and HTTP method; every action  *)
(* is the whole handler, the login_required guard and the file writes      *)
(* included.                                                               *)
(*                                                                         *)
(* Further specifications over the same files: RaceSpec runs two roster    *)
(* requests step by step (load, save); GatewaySpec starts the gateway      *)
(* process (src/wol_gatway.py) and serves /wake; SetupSpec runs the        *)
(* prompts of the setup tool (src/setup_wol.py) and starts the gateway on  *)
(* the file it saved.                                                      *)
(***************************************************************************)
EXTENDS Integers, Sequences, FiniteSets, TLC

VARIABLES
    adminFile,      \* admin_config.json: [state, cfg]
    configFile,     \* WOL_Brige.config: [state, hasServers, servers, top]
    session,        \* session['admin_logged_in'] of the browser
    now,            \* current TOTP time step (time.time() // 30)
    totpAvailable,  \* the module global TOTP_AVAILABLE as the handlers find it:
                    \* "unbound" (the module assigns it nowhere), or "true"
                    \* (bound as the imports of pyotp and qrcode at lines 20-21,
                    \* which have succeeded, imply); "false" cannot be, the
                    \* import would have failed
    last,           \* the last request and its response: [op, status, loc, msg]
    inflight,       \* roster requests running step by step, per browser:
                    \* [pc, kind, form, server_id, config, resp, view]
    gateway,        \* the wol_gatway.py process: [state, config, error]
    sent,           \* the wakeonlan runs that sent a packet: <<[mac, broadcast]>>
    wakeLast,       \* the response to the last GET /wake
    setup           \* the setup tool's run of main(): [pc, ...answers]

vars == <<adminFile, configFile, session, now, totpAvailable, last,
          inflight, gateway, sent, wakeLast, setup>>

\* the variables the admin panel's whole-handler actions never touch
offPanel == <<inflight, gateway, sent, wakeLast, setup>>

----------------------------------------------------------------------------
(* Bounds of the model *)

\* longest roster the model lets add_server build
MaxRoster == 2
\* last TOTP time step the clock reaches
MaxStep == 2
\* number of distinct one-time codes (pyotp: 10^6)
CodeSpace == 4

(* Program constants *)

\* len(new_password) < 6 is refused
MinPasswordLen == 6
\* totp.verify(..., valid_window=1)
ValidWindow == 1

----------------------------------------------------------------------------
(* Request inputs *)

Usernames == {"admin", "root"}
Passwords == {"", "abc12", "abcdef", "hunter22"}

\* the submitted totp_code: a code, or NoCode for an empty or non-numeric field
NoCode == -1
Codes == 0..(CodeSpace - 1)
SubmittedCodes == Codes \cup {NoCode}

\* secrets pyotp.random_base32() may return; "" is the stored "no secret"
Secrets == {"JBSWY3DP", "MFRGGZDF"}

\* a form field that the request does not carry
Missing == "<missing>"

----------------------------------------------------------------------------
(* hash_password: hashlib.sha256(password.encode()).hexdigest() *)

hash_password(password) ==
    CASE password = ""         -> "e3b0c44298fc1c149afbf4c8996fb92427ae41e4649b934ca495991b7852b855"
      [] password = "abc12"    -> "8d51feb34e3e69f6fa6dffc577e2c60490cf9a7fcd835f9f6af1505b71d74773"
      [] password = "abcdef"   -> "bef57ec7f53a6d40beb640a780a639c83bc29ac8a9816f1fc6c5c6dcd93c4721"
      [] password = "hunter22" -> "20d2fe5e369db54ec7090639a9dc30ec4d608604936239d39e2de07fda09eb0b"

verify_password(password, password_hash) ==
    hash_password(password) = password_hash

\* len(password) of the submitted strings
PasswordLen(password) ==
    CASE password = ""         -> 0
      [] password = "abc12"    -> 5
      [] password = "abcdef"   -> 6
      [] password = "hunter22" -> 8

----------------------------------------------------------------------------
(* pyotp.TOTP(secret): the code of a time step, and verify with a window.  *)
(* The HMAC-based code is modelled as a fixed pseudo-random table over the *)
(* model's code space; an empty secret is a valid (empty) HMAC key.        *)

SecretKey(secret) ==
    CASE secret = ""         -> 0
      [] secret = "JBSWY3DP" -> 1
      [] secret = "MFRGGZDF" -> 2

Otp(secret, step) == (SecretKey(secret) + step) % CodeSpace

\* mutant: valid_window=2
TotpVerifyWide(secret, code, t) ==
    /\ code # NoCode
    /\ \E i \in (0 - 2)..2 : Otp(secret, t + i) = code

TotpVerify(secret, code, t) ==
    /\ code # NoCode
    /\ \E i \in (0 - ValidWindow)..ValidWindow : Otp(secret, t + i) = code

----------------------------------------------------------------------------
(* admin_config.json *)

DefaultAdminConfig ==
    [ admin_enabled       |-> FALSE,
      admin_username      |-> "admin",
      admin_password_hash |-> "",
      tfa_enabled         |-> FALSE,
      tfa_secret          |-> "" ]

\* what load_admin_config() returns
load_admin_config(file) ==
    IF file.state = "ok" THEN file.cfg ELSE DefaultAdminConfig

\* mutant: the default record is returned and not written
AfterLoadNoWrite(file) == file

\* the file after load_admin_config(): an absent file is created with the
\* defaults, an unreadable one is left as it is
AfterLoad(file) ==
    IF file.state = "absent"
    THEN [state |-> "ok", cfg |-> DefaultAdminConfig]
    ELSE file

\* the file after save_admin_config(config)
save_admin_config(config) == [state |-> "ok", cfg |-> config]

----------------------------------------------------------------------------
(* login_required: "forbidden" (403), "login" (redirect) or "ok" *)

\* mutant: the session check is missing
GuardIgnoresSession(file, sess) ==
    IF ~ load_admin_config(file).admin_enabled THEN "forbidden" ELSE "ok"

\* mutant: the admin_enabled check is missing
GuardIgnoresDisabled(file, sess) ==
    IF ~ sess THEN "login" ELSE "ok"

Guard(file, sess) ==
    IF ~ load_admin_config(file).admin_enabled THEN "forbidden"
    ELSE IF ~ sess THEN "login"
    ELSE "ok"

Response(op, status, loc, msg) ==
    [op |-> op, status |-> status, loc |-> loc, msg |-> msg]

\* the response of login_required when it refuses the request
Refusal(op, g) ==
    IF g = "forbidden"
    THEN Response(op, 403, "", "Admin panel is disabled. Enable it using setup_wol.py")
    ELSE Response(op, 302, "admin.login", "")

----------------------------------------------------------------------------
(* JSON values of the top-level keys of WOL_Brige.config: [t, n, s] with   *)
(* t the type; n the number (of a float: in tenths; of a bool: 0 or 1);    *)
(* s the text.  JAbsent stands for a key the object does not have.         *)

JAbsent == [t |-> "absent", n |-> 0, s |-> ""]
JNull == [t |-> "null", n |-> 0, s |-> ""]
JList == [t |-> "list", n |-> 0, s |-> ""]
JBool(b) == [t |-> "bool", n |-> IF b THEN 1 ELSE 0, s |-> ""]
JInt(n) == [t |-> "int", n |-> n, s |-> ""]
JFloat(tenths) == [t |-> "float", n |-> tenths, s |-> ""]
JStr(s) == [t |-> "str", n |-> 0, s |-> s]

\* the top-level keys of a file written by json.dump(new_config) of the setup tool
Doc(mac, broadcast, url, wait, port) ==
    [ WOL_MAC_ADDRESS   |-> mac,
      BROADCAST_ADDRESS |-> broadcast,
      SITE_URL          |-> url,
      WAIT_TIME_SECONDS |-> wait,
      PORT              |-> port ]

\* a file without the single-server keys
NoTop == Doc(JAbsent, JAbsent, JAbsent, JAbsent, JAbsent)

\* the file of an operator who answered the setup prompts for one server
SetupDoc ==
    Doc(JStr("AA:BB:CC:DD:EE:FF"), JStr("192.168.1.255"),
        JStr("http://panel.local"), JInt(60), JInt(5000))

----------------------------------------------------------------------------
(* WOL_Brige.config and the server form *)

\* the submitted forms: name, mac, broadcast, url, wait_time
FormNAS ==
    [ name |-> "NAS", mac |-> "00:11:22:33:44:55", broadcast |-> "255.255.255.255",
      url |-> "http://nas.local", wait_time |-> "30" ]
FormBad ==
    [ name |-> " PC ", mac |-> "not-a-mac", broadcast |-> Missing,
      url |-> "", wait_time |-> "0" ]
FormNaN ==
    [ name |-> "NAS", mac |-> "00:11:22:33:44:55", broadcast |-> "255.255.255.255",
      url |-> "http://nas.local", wait_time |-> "abc" ]

Forms == {FormNAS, FormBad, FormNaN}

\* request.form.get(key, default)
FormGet(form, key, default) ==
    IF form[key] = Missing THEN default ELSE form[key]

\* str.strip() on the strings in play
Strip(s) ==
    CASE s = " PC "                 -> "PC"
      [] s = "  "                   -> ""
      [] s = " 00:11:22:33:44:55 "  -> "00:11:22:33:44:55"
      [] s = " http://nas.local "   -> "http://nas.local"
      [] s = " 30 "                 -> "30"
      [] OTHER                      -> s

\* int(x) on the submitted wait_time strings: [ok, val]; ok = FALSE is ValueError
ParseInt(s) ==
    CASE Strip(s) = "30"    -> [ok |-> TRUE, val |-> 30]
      [] Strip(s) = "0"     -> [ok |-> TRUE, val |-> 0]
      [] Strip(s) = "-5"    -> [ok |-> TRUE, val |-> 0 - 5]
      [] Strip(s) = "8080"  -> [ok |-> TRUE, val |-> 8080]
      [] Strip(s) = "65536" -> [ok |-> TRUE, val |-> 65536]
      [] OTHER              -> [ok |-> FALSE, val |-> 0]

\* int(request.form.get('wait_time', 60))
WaitOf(form) ==
    IF form.wait_time = Missing
    THEN [ok |-> TRUE, val |-> 60]
    ELSE ParseInt(form.wait_time)

\* the server entry built from a form (add_server and edit_server alike)
ServerEntry(form) ==
    [ NAME              |-> Strip(FormGet(form, "name", "")),
      WOL_MAC_ADDRESS   |-> Strip(FormGet(form, "mac", "")),
      BROADCAST_ADDRESS |-> Strip(FormGet(form, "broadcast", "255.255.255.255")),
      SITE_URL          |-> Strip(FormGet(form, "url", "")),
      WAIT_TIME_SECONDS |-> WaitOf(form).val ]

\* config.get('SERVERS', [])
ServersOf(file) == IF file.hasServers THEN file.servers ELSE <<>>

\* servers.pop(i), positions counted from 0
Pop(servers, i) ==
    [ k \in 1..(Len(servers) - 1) |->
        IF k <= i THEN servers[k] ELSE servers[k + 1] ]

InitConfigFiles ==
    { [state |-> "absent", hasServers |-> FALSE, servers |-> <<>>, top |-> NoTop],
      [state |-> "ok", hasServers |-> FALSE, servers |-> <<>>, top |-> SetupDoc],
      [state |-> "ok", hasServers |-> TRUE, servers |-> <<>>, top |-> SetupDoc] }

\* the positions a request may name: <int:server_id> matches no negative number
Indices == (0 - 1)..(MaxRoster + 1)

----------------------------------------------------------------------------
(* The state after construction: the files as the operator provisioned     *)
(* them, nobody logged in.                                                 *)

\* the record of an operator who set a password, with the panel on or off
InitAdminConfigs ==
    { [ admin_enabled       |-> e,
        admin_username      |-> "admin",
        admin_password_hash |-> hash_password("hunter22"),
        tfa_enabled         |-> FALSE,
        tfa_secret          |-> "" ] :
      e \in BOOLEAN }

InitAdminFiles ==
    { [state |-> "absent", cfg |-> DefaultAdminConfig],
      [state |-> "corrupt", cfg |-> DefaultAdminConfig] }
    \cup { [state |-> "ok", cfg |-> c] : c \in InitAdminConfigs }

\* the gateway process before it is started
NoConfig ==
    [ WOL_MAC_ADDRESS |-> "", BROADCAST_ADDRESS |-> "", SITE_URL |-> "",
      WAIT_TIME_SECONDS |-> 0, PORT |-> 0 ]

GatewayDown == [state |-> "down", error |-> "", config |-> NoConfig]

\* no /wake request answered yet
NoWake ==
    [status |-> 0, body |-> "", wait |-> 0, url |-> "", server |-> 0, runs |-> 0]

\* the setup tool is not running: [pc, defaults, new, typedMac] with
\* defaults the values main() offers in brackets, new the answers so far and
\* typedMac whether the MAC address was typed (and went through validate_mac)
SetupIdle == [pc |-> "idle", defaults |-> NoTop, new |-> NoTop, typedMac |-> FALSE]

\* nothing but the admin panel runs: no step-wise request, no gateway
\* process, no packet sent, no setup run
OffPanelIdle ==
    /\ inflight = <<>>
    /\ gateway = GatewayDown
    /\ sent = <<>>
    /\ wakeLast = NoWake
    /\ setup = SetupIdle

Init ==
    /\ adminFile \in InitAdminFiles
    /\ configFile \in InitConfigFiles
    /\ session = FALSE
    /\ now = 1
    /\ totpAvailable \in {"unbound", "true"}
    /\ last = Response("start", 0, "", "")
    /\ OffPanelIdle

----------------------------------------------------------------------------
(* A handler is an operator on the current state that gives the response   *)
(* and the files and session it leaves; the action of the handler applies  *)
(* that result.                                                            *)

Result(resp, admin, config, sess) ==
    [resp |-> resp, admin |-> admin, config |-> config, sess |-> sess]

Apply(r) ==
    /\ last' = r.resp
    /\ adminFile' = r.admin
    /\ configFile' = r.config
    /\ session' = r.sess
    /\ UNCHANGED <<now, totpAvailable, offPanel>>

\* a request refused by login_required: load_admin_config() ran, the body did not
Refused(op, g) == Result(Refusal(op, g), AfterLoad(adminFile), configFile, session)

\* a request whose body ran and wrote neither file
Answer(resp) == Result(resp, AfterLoad(adminFile), configFile, session)

\* the response to a URL that matches no route: no handler runs
NotRouted(op) ==
    Result(Response(op, 404, "", "Not Found"), adminFile, configFile, session)

----------------------------------------------------------------------------
(* /admin/login *)

login_get ==
    IF ~ load_admin_config(adminFile).admin_enabled
    THEN Refused("login_get", "forbidden")
    ELSE Answer(Response("login_get", 200, "", ""))

\* mutant: the second factor is not checked
login_post_skip2fa(username, password, totp_code) ==
    LET admin_config == load_admin_config(adminFile) IN
    IF ~ admin_config.admin_enabled
    THEN Refused("login_post", "forbidden")
    ELSE IF /\ username = admin_config.admin_username
            /\ verify_password(password, admin_config.admin_password_hash)
    THEN Result(Response("login_post", 302, "admin.dashboard", ""),
                AfterLoad(adminFile), configFile, TRUE)
    ELSE Answer(Response("login_post", 200, "", "Invalid username or password"))

login_post(username, password, totp_code) ==
    LET admin_config == load_admin_config(adminFile) IN
    IF ~ admin_config.admin_enabled
    THEN Refused("login_post", "forbidden")
    ELSE IF /\ username = admin_config.admin_username
            /\ verify_password(password, admin_config.admin_password_hash)
    THEN IF /\ admin_config.tfa_enabled
            /\ ~ TotpVerify(admin_config.tfa_secret, totp_code, now)
         THEN Answer(Response("login_post", 200, "", "Invalid 2FA code"))
         ELSE Result(Response("login_post", 302, "admin.dashboard", ""),
                     AfterLoad(adminFile), configFile, TRUE)
    ELSE Answer(Response("login_post", 200, "", "Invalid username or password"))

LoginGet == Apply(login_get)

LoginPost(username, password, totp_code) ==
    Apply(login_post(username, password, totp_code))

(* /admin/logout: session.pop('admin_logged_in', None) *)

\* mutant: the key popped is not the one login sets
logout_keeps_session ==
    Result(Response("logout", 302, "admin.login", ""), adminFile, configFile, session)

logout ==
    Result(Response("logout", 302, "admin.login", ""), adminFile, configFile, FALSE)

Logout == Apply(logout)

----------------------------------------------------------------------------
(* /admin/ *)

dashboard ==
    LET g == Guard(adminFile, session) IN
    IF g # "ok" THEN Refused("dashboard", g)
    ELSE IF configFile.state # "ok"
    THEN Answer(Response("dashboard", 500, "",
                         "Configuration file not found. Run setup_wol.py first."))
    ELSE Answer(Response("dashboard", 200, "", ""))

Dashboard == Apply(dashboard)

----------------------------------------------------------------------------
(* /admin/server/add *)

add_server_get ==
    LET g == Guard(adminFile, session) IN
    IF g # "ok" THEN Refused("add_get", g)
    ELSE Answer(Response("add_get", 200, "", ""))

\* mutant: the new entry is inserted at the head of the roster
add_server_post_prepend(form) ==
    LET g == Guard(adminFile, session) IN
    IF g # "ok" THEN Refused("add_post", g)
    ELSE IF configFile.state # "ok"
    THEN Answer(Response("add_post", 500, "", "FileNotFoundError"))
    ELSE IF ~ WaitOf(form).ok
    THEN Answer(Response("add_post", 500, "", "ValueError"))
    ELSE IF ~ configFile.hasServers
    THEN Answer(Response("add_post", 500, "", "KeyError"))
    ELSE Result(Response("add_post", 302, "admin.dashboard", "Server added successfully!"),
                AfterLoad(adminFile),
                [configFile EXCEPT !.servers = <<ServerEntry(form)>> \o @],
                session)

\* mutant: the entry is appended and written before the wait time is converted
add_server_post_write_first(form) ==
    LET g == Guard(adminFile, session) IN
    IF g # "ok" THEN Refused("add_post", g)
    ELSE IF configFile.state # "ok"
    THEN Answer(Response("add_post", 500, "", "FileNotFoundError"))
    ELSE IF ~ configFile.hasServers
    THEN Answer(Response("add_post", 500, "", "KeyError"))
    ELSE IF ~ WaitOf(form).ok
    THEN Result(Response("add_post", 500, "", "ValueError"),
                AfterLoad(adminFile),
                [configFile EXCEPT !.servers = Append(@, ServerEntry(form))],
                session)
    ELSE Result(Response("add_post", 302, "admin.dashboard", "Server added successfully!"),
                AfterLoad(adminFile),
                [configFile EXCEPT !.servers = Append(@, ServerEntry(form))],
                session)

add_server_post(form) ==
    LET g == Guard(adminFile, session) IN
    IF g # "ok" THEN Refused("add_post", g)
    ELSE IF configFile.state # "ok"          \* open() raises FileNotFoundError
    THEN Answer(Response("add_post", 500, "", "FileNotFoundError"))
    ELSE IF ~ WaitOf(form).ok                 \* int() raises ValueError
    THEN Answer(Response("add_post", 500, "", "ValueError"))
    ELSE IF ~ configFile.hasServers           \* config['SERVERS'] raises KeyError
    THEN Answer(Response("add_post", 500, "", "KeyError"))
    ELSE Result(Response("add_post", 302, "admin.dashboard", "Server added successfully!"),
                AfterLoad(adminFile),
                [configFile EXCEPT !.servers = Append(@, ServerEntry(form))],
                session)

AddServerGet == Apply(add_server_get)

\* the model stops adding at MaxRoster entries
AddServerPost(form) ==
    /\ Len(ServersOf(configFile)) < MaxRoster
    /\ Apply(add_server_post(form))

----------------------------------------------------------------------------
(* /admin/server/edit/<int:server_id>, server_id >= 0 *)

edit_server_get(server_id) ==
    LET g == Guard(adminFile, session)
        servers == ServersOf(configFile)
    IN
    IF g # "ok" THEN Refused("edit_get", g)
    ELSE IF configFile.state # "ok"
    THEN Answer(Response("edit_get", 500, "", "FileNotFoundError"))
    ELSE IF server_id < 0 \/ server_id >= Len(servers)
    THEN Answer(Response("edit_get", 404, "", "Invalid server ID"))
    ELSE Answer(Response("edit_get", 200, "", ""))

\* mutant: the entry replaced is the last one, whatever the index
edit_server_post_last(server_id, form) ==
    LET g == Guard(adminFile, session)
        servers == ServersOf(configFile)
    IN
    IF g # "ok" THEN Refused("edit_post", g)
    ELSE IF configFile.state # "ok"
    THEN Answer(Response("edit_post", 500, "", "FileNotFoundError"))
    ELSE IF server_id < 0 \/ server_id >= Len(servers)
    THEN Answer(Response("edit_post", 404, "", "Invalid server ID"))
    ELSE IF ~ WaitOf(form).ok
    THEN Answer(Response("edit_post", 500, "", "ValueError"))
    ELSE Result(Response("edit_post", 302, "admin.dashboard", "Server updated successfully!"),
                AfterLoad(adminFile),
                [configFile EXCEPT !.servers[Len(servers)] = ServerEntry(form)],
                session)

edit_server_post(server_id, form) ==
    LET g == Guard(adminFile, session)
        servers == ServersOf(configFile)
    IN
    IF g # "ok" THEN Refused("edit_post", g)
    ELSE IF configFile.state # "ok"
    THEN Answer(Response("edit_post", 500, "", "FileNotFoundError"))
    ELSE IF server_id < 0 \/ server_id >= Len(servers)
    THEN Answer(Response("edit_post", 404, "", "Invalid server ID"))
    ELSE IF ~ WaitOf(form).ok
    THEN Answer(Response("edit_post", 500, "", "ValueError"))
    ELSE Result(Response("edit_post", 302, "admin.dashboard", "Server updated successfully!"),
                AfterLoad(adminFile),
                [configFile EXCEPT !.servers[server_id + 1] = ServerEntry(form)],
                session)

\* the route: a negative number in the URL matches no <int:server_id>
route_edit_get(server_id) ==
    IF server_id < 0 THEN NotRouted("edit_get") ELSE edit_server_get(server_id)

route_edit_post(server_id, form) ==
    IF server_id < 0 THEN NotRouted("edit_post") ELSE edit_server_post(server_id, form)

EditServerGet(server_id) == Apply(route_edit_get(server_id))

EditServerPost(server_id, form) == Apply(route_edit_post(server_id, form))

----------------------------------------------------------------------------
(* /admin/server/delete/<int:server_id>, server_id >= 0 *)

\* mutant: positions counted from 1
delete_server_one_based(server_id) ==
    LET g == Guard(adminFile, session)
        servers == ServersOf(configFile)
    IN
    IF g # "ok" THEN Refused("delete", g)
    ELSE IF configFile.state # "ok"
    THEN Answer(Response("delete", 500, "", "FileNotFoundError"))
    ELSE IF server_id < 1 \/ server_id > Len(servers)
    THEN Answer(Response("delete", 404, "", "Invalid server ID"))
    ELSE Result(Response("delete", 302, "admin.dashboard", "Server deleted successfully!"),
                AfterLoad(adminFile),
                [configFile EXCEPT !.servers = Pop(@, server_id - 1)],
                session)

\* mutant: servers.pop() without the index
delete_server_pops_last(server_id) ==
    LET g == Guard(adminFile, session)
        servers == ServersOf(configFile)
    IN
    IF g # "ok" THEN Refused("delete", g)
    ELSE IF configFile.state # "ok"
    THEN Answer(Response("delete", 500, "", "FileNotFoundError"))
    ELSE IF server_id < 0 \/ server_id >= Len(servers)
    THEN Answer(Response("delete", 404, "", "Invalid server ID"))
    ELSE Result(Response("delete", 302, "admin.dashboard", "Server deleted successfully!"),
                AfterLoad(adminFile),
                [configFile EXCEPT !.servers = Pop(@, Len(servers) - 1)],
                session)

delete_server(server_id) ==
    LET g == Guard(adminFile, session)
        servers == ServersOf(configFile)
    IN
    IF g # "ok" THEN Refused("delete", g)
    ELSE IF configFile.state # "ok"
    THEN Answer(Response("delete", 500, "", "FileNotFoundError"))
    ELSE IF server_id < 0 \/ server_id >= Len(servers)
    THEN Answer(Response("delete", 404, "", "Invalid server ID"))
    ELSE Result(Response("delete", 302, "admin.dashboard", "Server deleted successfully!"),
                AfterLoad(adminFile),
                [configFile EXCEPT !.servers = Pop(@, server_id)],
                session)

route_delete(server_id) ==
    IF server_id < 0 THEN NotRouted("delete") ELSE delete_server(server_id)

DeleteServer(server_id) == Apply(route_delete(server_id))

----------------------------------------------------------------------------
(* /admin/security *)

\* a security_settings POST that flashes msg and redirects to the page
Flash(op, msg, admin) ==
    Result(Response(op, 302, "admin.security_settings", msg), admin, configFile, session)

security_get ==
    LET g == Guard(adminFile, session) IN
    IF g # "ok" THEN Refused("security_get", g)
    ELSE Answer(Response("security_get", 200, "", ""))

\* mutant: the length of the new password is not checked
change_password_any_length(current_password, new_password, confirm_password) ==
    LET g == Guard(adminFile, session)
        admin_config == load_admin_config(adminFile)
    IN
    IF g # "ok" THEN Refused("change_password", g)
    ELSE IF ~ verify_password(current_password, admin_config.admin_password_hash)
    THEN Flash("change_password", "Current password is incorrect", adminFile)
    ELSE IF new_password # confirm_password
    THEN Flash("change_password", "New passwords do not match", adminFile)
    ELSE Flash("change_password", "Password changed successfully",
               save_admin_config([admin_config EXCEPT
                   !.admin_password_hash = hash_password(new_password)]))

\* action == 'change_password' (lines 263-278)
change_password(current_password, new_password, confirm_password) ==
    LET g == Guard(adminFile, session)
        admin_config == load_admin_config(adminFile)
    IN
    IF g # "ok" THEN Refused("change_password", g)
    ELSE IF ~ verify_password(current_password, admin_config.admin_password_hash)
    THEN Flash("change_password", "Current password is incorrect", adminFile)
    ELSE IF new_password # confirm_password
    THEN Flash("change_password", "New passwords do not match", adminFile)
    ELSE IF PasswordLen(new_password) < MinPasswordLen
    THEN Flash("change_password", "Password must be at least 6 characters", adminFile)
    ELSE Flash("change_password", "Password changed successfully",
               save_admin_config([admin_config EXCEPT
                   !.admin_password_hash = hash_password(new_password)]))

\* action == 'enable_2fa' (lines 280-302); secret is pyotp.random_base32().
\* TOTP_AVAILABLE is read here and assigned nowhere in the module: the read
\* raises NameError unless the importing application has bound the name.
enable_2fa(secret) ==
    LET g == Guard(adminFile, session)
        admin_config == load_admin_config(adminFile)
    IN
    IF g # "ok" THEN Refused("enable_2fa", g)
    ELSE IF totpAvailable = "unbound"
    THEN Answer(Response("enable_2fa", 500, "", "NameError"))
    ELSE IF totpAvailable = "false"
    THEN Flash("enable_2fa", "2FA requires pyotp and qrcode packages.", adminFile)
    ELSE Result(Response("enable_2fa", 200, "", "setup_2fa"),
                save_admin_config([admin_config EXCEPT
                    !.tfa_secret = secret, !.tfa_enabled = FALSE]),
                configFile, session)

\* action == 'verify_2fa' (lines 304-315)
verify_2fa(totp_code) ==
    LET g == Guard(adminFile, session)
        admin_config == load_admin_config(adminFile)
    IN
    IF g # "ok" THEN Refused("verify_2fa", g)
    ELSE IF TotpVerify(admin_config.tfa_secret, totp_code, now)
    THEN Flash("verify_2fa", "2FA enabled successfully",
               save_admin_config([admin_config EXCEPT !.tfa_enabled = TRUE]))
    ELSE Flash("verify_2fa", "Invalid 2FA code. Please try again.", adminFile)

\* action == 'disable_2fa' (lines 317-325)
disable_2fa(password) ==
    LET g == Guard(adminFile, session)
        admin_config == load_admin_config(adminFile)
    IN
    IF g # "ok" THEN Refused("disable_2fa", g)
    ELSE IF verify_password(password, admin_config.admin_password_hash)
    THEN Flash("disable_2fa", "2FA disabled successfully",
               save_admin_config([admin_config EXCEPT
                   !.tfa_enabled = FALSE, !.tfa_secret = ""]))
    ELSE Flash("disable_2fa", "Incorrect password", adminFile)

\* a POST with any other action value falls through to the redirect (line 327)
security_other ==
    LET g == Guard(adminFile, session) IN
    IF g # "ok" THEN Refused("security_other", g)
    ELSE Flash("security_other", "", adminFile)

SecurityGet == Apply(security_get)

ChangePassword(current_password, new_password, confirm_password) ==
    Apply(change_password(current_password, new_password, confirm_password))

\* random_base32() returns a fresh secret: never the stored one
Enable2fa(secret) ==
    /\ secret # load_admin_config(adminFile).tfa_secret
    /\ Apply(enable_2fa(secret))

Verify2fa(totp_code) == Apply(verify_2fa(totp_code))

Disable2fa(password) == Apply(disable_2fa(password))

SecurityPostOther == Apply(security_other)

----------------------------------------------------------------------------
(* The environment: one TOTP time step passes; the operator switches the   *)
(* panel on or off in admin_config.json (the 403 text of login_required    *)
(* sends the operator to the setup tool for it).                           *)

Tick ==
    /\ now < MaxStep
    /\ now' = now + 1
    /\ UNCHANGED <<adminFile, configFile, session, totpAvailable, last, offPanel>>

OperatorSetEnabled(enabled) ==
    /\ adminFile.state = "ok"
    /\ adminFile.cfg.admin_enabled # enabled
    /\ adminFile.cfg.admin_password_hash # ""
    /\ adminFile' = [adminFile EXCEPT !.cfg.admin_enabled = enabled]
    /\ UNCHANGED <<configFile, session, now, totpAvailable, last, offPanel>>

----------------------------------------------------------------------------

Next ==
    \/ LoginGet
    \/ \E u \in Usernames, p \in Passwords, c \in SubmittedCodes : LoginPost(u, p, c)
    \/ Logout
    \/ Dashboard
    \/ AddServerGet
    \/ \E f \in Forms : AddServerPost(f)
    \/ \E i \in Indices : EditServerGet(i)
    \/ \E i \in Indices, f \in Forms : EditServerPost(i, f)
    \/ \E i \in Indices : DeleteServer(i)
    \/ SecurityGet
    \/ \E cur \in Passwords, new \in Passwords, conf \in Passwords :
          ChangePassword(cur, new, conf)
    \/ \E s \in Secrets : Enable2fa(s)
    \/ \E c \in SubmittedCodes : Verify2fa(c)
    \/ \E p \in Passwords : Disable2fa(p)
    \/ SecurityPostOther
    \/ Tick
    \/ \E e \in BOOLEAN : OperatorSetEnabled(e)

Spec == Init /\ [][Next]_vars

----------------------------------------------------------------------------
(* Every request the panel routes to a handler, with the handler's result. *)
(* P(op, r) is asked of each of them in the current state.                 *)

RoutedIndices == { i \in Indices : i >= 0 }

ForEachLoginRequest(P(_, _)) ==
    /\ P("login_get", login_get)
    /\ \A u \in Usernames, p \in Passwords, c \in SubmittedCodes :
          P("login_post", login_post(u, p, c))

ForEachRosterRequest(P(_, _)) ==
    /\ P("dashboard", dashboard)
    /\ P("add_get", add_server_get)
    /\ \A f \in Forms : P("add_post", add_server_post(f))
    /\ \A i \in RoutedIndices : P("edit_get", edit_server_get(i))
    /\ \A i \in RoutedIndices, f \in Forms : P("edit_post", edit_server_post(i, f))
    /\ \A i \in RoutedIndices : P("delete", delete_server(i))

ForEachSecurityRequest(P(_, _)) ==
    /\ P("security_get", security_get)
    /\ \A cur \in Passwords, new \in Passwords, conf \in Passwords :
          P("change_password", change_password(cur, new, conf))
    /\ \A s \in Secrets : P("enable_2fa", enable_2fa(s))
    /\ \A c \in SubmittedCodes : P("verify_2fa", verify_2fa(c))
    /\ \A p \in Passwords : P("disable_2fa", disable_2fa(p))
    /\ P("security_other", security_other)

\* the operations behind login_required
ForEachGuardedRequest(P(_, _)) ==
    /\ ForEachRosterRequest(P)
    /\ ForEachSecurityRequest(P)

ForEachRequest(P(_, _)) ==
    /\ ForEachLoginRequest(P)
    /\ P("logout", logout)
    /\ ForEachGuardedRequest(P)

\* the credentials record a file stands for
Credentials(file) == load_admin_config(file)

----------------------------------------------------------------------------
(* Claims *)

\* the code validates within the +/-1 step window of the claims
InWindow(secret, code, t) ==
    /\ code # NoCode
    /\ \E step \in {t - 1, t, t + 1} : Otp(secret, step) = code

\* the login condition of C1, spelled out on the stored record
LoginCondition(cfg, username, password, totp_code, t) ==
    /\ cfg.admin_enabled
    /\ username = cfg.admin_username
    /\ hash_password(password) = cfg.admin_password_hash
    /\ (~ cfg.tfa_enabled \/ InWindow(cfg.tfa_secret, totp_code, t))

\* C1: a POST to /admin/login sets admin_logged_in if and only if the panel is
\* enabled, the username equals admin_username, the password hashes to
\* admin_password_hash and (2fa_enabled is false or the code validates against
\* 2fa_secret within the +/-1 step window); in every other case the session is
\* left as it was.
C1_LoginIff ==
    \A u \in Usernames, p \in Passwords, c \in SubmittedCodes :
        LET r  == login_post(u, p, c)
            ok == LoginCondition(Credentials(adminFile), u, p, c, now)
        IN
        /\ ok => (r.sess = TRUE /\ r.resp.loc = "admin.dashboard")
        /\ ~ ok => (r.sess = session /\ r.resp.loc # "admin.dashboard")

\* a login that passed the second factor of an enrolled secret
C1_Witness ==
    /\ last.op = "login_post" /\ last.status = 302
    /\ session
    /\ adminFile.cfg.tfa_enabled /\ adminFile.cfg.tfa_secret \in Secrets

\* C2: every failed login reports the same generic error: two attempts that
\* fail for different reasons (username, password, second-factor code) get
\* indistinguishable responses.
C2_GenericError ==
    \A u1 \in Usernames, p1 \in Passwords, c1 \in SubmittedCodes :
    \A u2 \in Usernames, p2 \in Passwords, c2 \in SubmittedCodes :
        LET r1 == login_post(u1, p1, c1)
            r2 == login_post(u2, p2, c2)
        IN
        (r1.resp.status = 200 /\ r2.resp.status = 200) => r1.resp = r2.resp

\* C3: while admin_enabled is false, login (GET/POST), dashboard, server add,
\* edit, delete and security settings all answer 403, logged in or not, and
\* leave the roster file, the credentials record and the session as they were.
C3_DisabledForbidden ==
    ~ Credentials(adminFile).admin_enabled =>
        /\ ForEachLoginRequest(LAMBDA op, r :
              /\ r.resp.status = 403
              /\ r.config = configFile
              /\ Credentials(r.admin) = Credentials(adminFile)
              /\ r.sess = session)
        /\ ForEachGuardedRequest(LAMBDA op, r :
              /\ r.resp.status = 403
              /\ r.config = configFile
              /\ Credentials(r.admin) = Credentials(adminFile)
              /\ r.sess = session)

\* a logged-in session was refused a roster change on a disabled panel
C3_Witness ==
    /\ ~ Credentials(adminFile).admin_enabled
    /\ session
    /\ last.op = "add_post" /\ last.status = 403

\* C4: while admin_enabled is true and the session is logged out, dashboard,
\* server add, edit, delete and security settings redirect to the login page
\* and their bodies do not run: roster and credentials are unchanged.
C4_LoggedOutRedirect ==
    (Credentials(adminFile).admin_enabled /\ ~ session) =>
        ForEachGuardedRequest(LAMBDA op, r :
            /\ r.resp.status = 302 /\ r.resp.loc = "admin.login"
            /\ r.config = configFile
            /\ r.admin = adminFile
            /\ r.sess = FALSE)

\* a logged-out browser was sent to the login page by delete_server while the
\* roster held an entry
C4_Witness ==
    /\ Credentials(adminFile).admin_enabled /\ ~ session
    /\ last.op = "delete" /\ last.loc = "admin.login"
    /\ Len(ServersOf(configFile)) > 0

\* C5: logout always leaves the session logged out and changes neither file;
\* from a logged-out session every guarded operation is refused, and only a
\* successful login POST logs the session in again.
C5_LogoutUnconditional ==
    /\ logout.sess = FALSE
    /\ logout.config = configFile
    /\ logout.admin = adminFile
    /\ ~ session =>
          /\ ForEachGuardedRequest(LAMBDA op, r :
                /\ r.resp.status = 403 \/ r.resp.loc = "admin.login"
                /\ r.config = configFile
                /\ Credentials(r.admin) = Credentials(adminFile))
          /\ ForEachRequest(LAMBDA op, r :
                r.sess => (op = "login_post" /\ r.resp.loc = "admin.dashboard"))

\* a logout on an enabled panel with a roster entry to protect
C5_Witness ==
    /\ last.op = "logout" /\ ~ session
    /\ Credentials(adminFile).admin_enabled
    /\ Len(ServersOf(configFile)) > 0

\* C6: 2fa_enabled goes from false to true only in a verify_2fa request whose
\* code validates against the stored 2fa_secret within the +/-1 step window;
\* a verify_2fa with a code outside the window leaves the record unchanged.
C6_EnableOnlyByVerify ==
    LET cfg == Credentials(adminFile)
        Flips(r) == ~ cfg.tfa_enabled /\ Credentials(r.admin).tfa_enabled
    IN
    /\ ForEachRequest(LAMBDA op, r : Flips(r) => op = "verify_2fa")
    /\ \A c \in SubmittedCodes :
          LET r == verify_2fa(c) IN
          /\ Flips(r) => InWindow(cfg.tfa_secret, c, now)
          /\ ~ InWindow(cfg.tfa_secret, c, now) =>
                Credentials(r.admin) = Credentials(adminFile)

\* a pending secret was verified and the second factor switched on
C6_Witness ==
    /\ last.op = "verify_2fa" /\ last.msg = "2FA enabled successfully"
    /\ adminFile.cfg.tfa_enabled /\ adminFile.cfg.tfa_secret \in Secrets

\* a verify_2fa with a code outside the window was turned down
C6_WitnessStale ==
    /\ last.op = "verify_2fa" /\ last.msg = "Invalid 2FA code. Please try again."
    /\ ~ adminFile.cfg.tfa_enabled /\ adminFile.cfg.tfa_secret \in Secrets

\* C7: an enable_2fa request of a logged-in admin stores a fresh secret with
\* 2fa_enabled = false; while a secret is pending (stored, not verified) a
\* login needs only the right username and password, whatever the code.
C7_EnablePersistsSecret ==
    LET cfg == Credentials(adminFile) IN
    /\ (last.op = "enable_2fa" /\ last.status # 403 /\ last.loc # "admin.login") =>
          (cfg.tfa_secret \in Secrets /\ ~ cfg.tfa_enabled)
    /\ (cfg.admin_enabled /\ ~ cfg.tfa_enabled) =>
          \A c \in SubmittedCodes, p \in Passwords :
              hash_password(p) = cfg.admin_password_hash =>
                  login_post(cfg.admin_username, p, c).sess

C9_PasswordChange ==
    LET cfg == Credentials(adminFile)
        Changes(r) == Credentials(r.admin).admin_password_hash # cfg.admin_password_hash
    IN
    /\ ForEachRequest(LAMBDA op, r : Changes(r) => op = "change_password")
    /\ \A cur \in Passwords, new \in Passwords, conf \in Passwords :
          LET r  == change_password(cur, new, conf)
              ok == /\ hash_password(cur) = cfg.admin_password_hash
                    /\ new = conf
                    /\ PasswordLen(new) >= 6
          IN
          /\ ~ ok => Credentials(r.admin) = Credentials(adminFile)
          /\ (ok /\ Guard(adminFile, session) = "ok") =>
                Credentials(r.admin) =
                    [cfg EXCEPT !.admin_password_hash = hash_password(new)]

\* the password was changed to one of exactly the minimum length
C9_Witness ==
    /\ last.op = "change_password" /\ last.msg = "Password changed successfully"
    /\ adminFile.cfg.admin_password_hash = hash_password("abcdef")

\* C10: an edit or delete request whose index is outside [0, len(roster))
\* never succeeds and never changes the roster file, whatever the roster's
\* length; where the handler reads the file it answers 404.
C10_IndexOutOfRange ==
    \A i \in Indices :
        (i < 0 \/ i >= Len(ServersOf(configFile))) =>
            LET Fails(r) ==
                    /\ r.config = configFile
                    /\ r.resp.status \in {403, 404} \/ r.resp.loc = "admin.login"
                          \/ (configFile.state # "ok" /\ r.resp.status = 500)
                    /\ (Guard(adminFile, session) = "ok" /\ configFile.state = "ok")
                          => r.resp.status = 404
            IN
            /\ Fails(route_edit_get(i))
            /\ \A f \in Forms : Fails(route_edit_post(i, f))
            /\ Fails(route_delete(i))

\* a delete one past the end of a non-empty roster was answered 404
C10_Witness ==
    /\ last.op = "delete" /\ last.status = 404 /\ last.msg = "Invalid server ID"
    /\ Len(ServersOf(configFile)) > 0

----------------------------------------------------------------------------
(* Roster operations *)

\* the five fields exactly as the request carries them, the wait time read as
\* the decimal number it spells
SubmittedEntry(form) ==
    [ NAME              |-> form.name,
      WOL_MAC_ADDRESS   |-> form.mac,
      BROADCAST_ADDRESS |-> form.broadcast,
      SITE_URL          |-> form.url,
      WAIT_TIME_SECONDS |-> CASE form.wait_time = "30" -> 30
                              [] form.wait_time = "0"  -> 0
                              [] OTHER                 -> 0 - 1 ]

\* the entry a submitted form stands for once surrounding whitespace is
\* removed and an absent broadcast field is read as 255.255.255.255
TrimmedEntry(form) ==
    CASE form = FormNAS ->
            [ NAME |-> "NAS", WOL_MAC_ADDRESS |-> "00:11:22:33:44:55",
              BROADCAST_ADDRESS |-> "255.255.255.255",
              SITE_URL |-> "http://nas.local", WAIT_TIME_SECONDS |-> 30 ]
      [] form = FormBad ->
            [ NAME |-> "PC", WOL_MAC_ADDRESS |-> "not-a-mac",
              BROADCAST_ADDRESS |-> "255.255.255.255",
              SITE_URL |-> "", WAIT_TIME_SECONDS |-> 0 ]
      [] OTHER -> SubmittedEntry(form)

\* a successful add_server POST appended Expected(form) and kept the rest
AddAppends(Expected(_)) ==
    \A f \in Forms :
        LET r   == add_server_post(f)
            old == ServersOf(configFile)
            new == ServersOf(r.config)
        IN
        r.resp.msg = "Server added successfully!" =>
            /\ configFile.hasServers
            /\ Len(new) = Len(old) + 1
            /\ new[Len(new)] = Expected(f)
            /\ \A k \in 1..Len(old) : new[k] = old[k]

\* C11 (as claimed): a successful add_server POST on a config holding a
\* SERVERS roster lengthens the roster by one, the last entry's five fields
\* equal the submitted name, MAC, broadcast address, URL and wait time, and
\* the earlier entries keep their positions and values.
C11_AddAppendsSubmitted == AddAppends(SubmittedEntry)

\* C11 (amended): as above, the last entry holding the submitted name, MAC,
\* broadcast address and URL with surrounding whitespace removed (an absent
\* broadcast field stored as 255.255.255.255) and the wait time as an integer.
C11_AddAppendsTrimmed == AddAppends(TrimmedEntry)

\* a second entry, submitted with padding around its name, was appended
\* behind the first
C11_Witness ==
    /\ last.op = "add_post" /\ last.msg = "Server added successfully!"
    /\ Len(ServersOf(configFile)) = 2
    /\ ServersOf(configFile)[1].NAME = "NAS"
    /\ ServersOf(configFile)[2].NAME = "PC"

\* C12: a delete_server request with a valid index i removes exactly the
\* entry at position i: the roster is one shorter, the entries before i are
\* unchanged and every entry formerly at position j > i is now at j - 1.
C12_DeleteShifts ==
    \A i \in RoutedIndices :
        LET r   == delete_server(i)
            old == ServersOf(configFile)
            new == ServersOf(r.config)
        IN
        (i < Len(old) /\ Guard(adminFile, session) = "ok") =>
            /\ r.resp.msg = "Server deleted successfully!"
            /\ Len(new) = Len(old) - 1
            /\ \A j \in 0..(i - 1) : new[j + 1] = old[j + 1]
            /\ \A j \in (i + 1)..(Len(old) - 1) : new[j] = old[j + 1]

\* a delete left a one-entry roster holding the entry named PC
C12_Witness ==
    /\ last.op = "delete" /\ last.msg = "Server deleted successfully!"
    /\ Len(ServersOf(configFile)) = 1
    /\ ServersOf(configFile)[1].NAME = "PC"

----------------------------------------------------------------------------
(* Two roster requests at once.  A POST of add_server or edit_server runs  *)
(* in two steps: login_required and json.load(f) of the roster file, then  *)
(* the change of the decoded copy and json.dump(config, f).  Each browser  *)
(* of the administrator runs one request at a time; the steps of the two   *)
(* browsers interleave freely, the code takes no lock.                     *)

Browsers == {"b1", "b2"}

NoResponse == Response("", 0, "", "")

IdleRequest ==
    [ pc |-> "idle", kind |-> "", form |-> FormNAS, server_id |-> 0,
      config |-> [state |-> "absent", hasServers |-> FALSE, servers |-> <<>>,
                  top |-> NoTop],
      resp |-> NoResponse,
      view |-> <<>> ]

\* a request that has answered
DoneRequest(req, resp) == [req EXCEPT !.pc = "done", !.resp = resp]

\* add_server, first step (lines 164-170)
add_server_load(form) ==
    LET g   == Guard(adminFile, session)
        req == [IdleRequest EXCEPT !.kind = "add", !.form = form]
    IN
    IF g # "ok" THEN DoneRequest(req, Refusal("add_post", g))
    ELSE IF configFile.state # "ok"
    THEN DoneRequest(req, Response("add_post", 500, "", "FileNotFoundError"))
    ELSE [req EXCEPT !.pc = "loaded", !.config = configFile]

\* mutant: the roster file is read again right before it is written
add_server_save_merging(req, file) ==
    IF ~ WaitOf(req.form).ok
    THEN [resp |-> Response("add_post", 500, "", "ValueError"), config |-> file]
    ELSE IF ~ req.config.hasServers
    THEN [resp |-> Response("add_post", 500, "", "KeyError"), config |-> file]
    ELSE [ resp   |-> Response("add_post", 302, "admin.dashboard",
                               "Server added successfully!"),
           config |-> [file EXCEPT !.servers = Append(@, ServerEntry(req.form))] ]

\* add_server, second step (lines 172-189): the response and the roster file
\* it leaves; file is the roster file as the step finds it
add_server_save(req, file) ==
    IF ~ WaitOf(req.form).ok
    THEN [resp |-> Response("add_post", 500, "", "ValueError"), config |-> file]
    ELSE IF ~ req.config.hasServers
    THEN [resp |-> Response("add_post", 500, "", "KeyError"), config |-> file]
    ELSE [ resp   |-> Response("add_post", 302, "admin.dashboard",
                               "Server added successfully!"),
           config |-> [req.config EXCEPT
                          !.servers = Append(@, ServerEntry(req.form))] ]

\* edit_server, first step (lines 195-205)
edit_server_load(server_id, form) ==
    LET g   == Guard(adminFile, session)
        req == [IdleRequest EXCEPT !.kind = "edit", !.form = form,
                                   !.server_id = server_id]
    IN
    IF g # "ok" THEN DoneRequest(req, Refusal("edit_post", g))
    ELSE IF configFile.state # "ok"
    THEN DoneRequest(req, Response("edit_post", 500, "", "FileNotFoundError"))
    ELSE IF server_id < 0 \/ server_id >= Len(ServersOf(configFile))
    THEN DoneRequest(req, Response("edit_post", 404, "", "Invalid server ID"))
    ELSE [req EXCEPT !.pc = "loaded", !.config = configFile]

\* edit_server, second step (lines 207-222)
edit_server_save(req, file) ==
    IF ~ WaitOf(req.form).ok
    THEN [resp |-> Response("edit_post", 500, "", "ValueError"), config |-> file]
    ELSE [ resp   |-> Response("edit_post", 302, "admin.dashboard",
                               "Server updated successfully!"),
           config |-> [req.config EXCEPT
                          !.servers[req.server_id + 1] = ServerEntry(req.form)] ]

\* delete_server, first step (lines 230-240)
delete_server_load(server_id) ==
    LET g   == Guard(adminFile, session)
        req == [IdleRequest EXCEPT !.kind = "delete", !.server_id = server_id]
    IN
    IF g # "ok" THEN DoneRequest(req, Refusal("delete", g))
    ELSE IF configFile.state # "ok"
    THEN DoneRequest(req, Response("delete", 500, "", "FileNotFoundError"))
    ELSE IF server_id < 0 \/ server_id >= Len(ServersOf(configFile))
    THEN DoneRequest(req, Response("delete", 404, "", "Invalid server ID"))
    ELSE [req EXCEPT !.pc = "loaded", !.config = configFile]

\* mutant: the roster file is read again right before it is written
delete_server_save_merging(req, file) ==
    [ resp   |-> Response("delete", 302, "admin.dashboard",
                          "Server deleted successfully!"),
      config |-> [file EXCEPT !.servers = Pop(@, req.server_id)] ]

\* delete_server, second step (lines 242-251)
delete_server_save(req, file) ==
    [ resp   |-> Response("delete", 302, "admin.dashboard",
                          "Server deleted successfully!"),
      config |-> [req.config EXCEPT !.servers = Pop(@, req.server_id)] ]

\* the browser shows the dashboard (lines 143-160): the page lists the
\* roster as the file holds it now, and the requests the browser sends next
\* name their entry by its position on this page
ViewDashboard(b) ==
    /\ inflight[b].pc = "idle"
    /\ Guard(adminFile, session) = "ok"
    /\ configFile.state = "ok"
    /\ inflight' = [inflight EXCEPT ![b].view = ServersOf(configFile)]
    /\ adminFile' = AfterLoad(adminFile)
    /\ UNCHANGED <<configFile, session, now, totpAvailable, last,
                   gateway, sent, wakeLast, setup>>

\* the browser sends the request from the page it shows
RequestLoad(b, req) ==
    /\ inflight[b].pc = "idle"
    /\ inflight' = [inflight EXCEPT ![b] = [req EXCEPT !.view = inflight[b].view]]
    /\ adminFile' = AfterLoad(adminFile)
    /\ UNCHANGED <<configFile, session, now, totpAvailable, last,
                   gateway, sent, wakeLast, setup>>

RequestSave(b, r) ==
    /\ inflight' = [inflight EXCEPT ![b] = DoneRequest(@, r.resp)]
    /\ configFile' = r.config
    /\ UNCHANGED <<adminFile, session, now, totpAvailable, last,
                   gateway, sent, wakeLast, setup>>

\* the model stops adding at MaxRoster entries
AddLoad(b, form) ==
    /\ Len(ServersOf(configFile)) < MaxRoster
    /\ RequestLoad(b, add_server_load(form))

AddSave(b) ==
    /\ inflight[b].pc = "loaded" /\ inflight[b].kind = "add"
    /\ RequestSave(b, add_server_save(inflight[b], configFile))

EditLoad(b, server_id, form) ==
    RequestLoad(b, edit_server_load(server_id, form))

EditSave(b) ==
    /\ inflight[b].pc = "loaded" /\ inflight[b].kind = "edit"
    /\ RequestSave(b, edit_server_save(inflight[b], configFile))

DeleteLoad(b, server_id) ==
    RequestLoad(b, delete_server_load(server_id))

DeleteSave(b) ==
    /\ inflight[b].pc = "loaded" /\ inflight[b].kind = "delete"
    /\ RequestSave(b, delete_server_save(inflight[b], configFile))

\* the browser has its response and is free for the next request
RequestReturn(b) ==
    /\ inflight[b].pc = "done"
    /\ inflight' = [inflight EXCEPT ![b] = IdleRequest]
    /\ UNCHANGED <<adminFile, configFile, session, now, totpAvailable, last,
                   gateway, sent, wakeLast, setup>>

RaceInit ==
    /\ adminFile \in { f \in InitAdminFiles : f.state = "ok" }
    /\ configFile \in InitConfigFiles
    /\ session = FALSE
    /\ now = 1
    /\ totpAvailable = "unbound"
    /\ last = Response("start", 0, "", "")
    /\ inflight = [b \in Browsers |-> IdleRequest]
    /\ gateway = GatewayDown
    /\ sent = <<>>
    /\ wakeLast = NoWake
    /\ setup = SetupIdle

RaceNext ==
    \/ \E p \in Passwords : LoginPost("admin", p, NoCode)
    \/ \E b \in Browsers, f \in Forms : AddLoad(b, f)
    \/ \E b \in Browsers : AddSave(b)
    \/ \E b \in Browsers, i \in RoutedIndices, f \in Forms : EditLoad(b, i, f)
    \/ \E b \in Browsers : EditSave(b)
    \/ \E b \in Browsers : RequestReturn(b)

RaceSpec == RaceInit /\ [][RaceNext]_vars

\* C13: roster changes are an unlocked read-modify-write, the last writer
\* wins: a successful save of an add_server request leaves the roster it
\* loaded plus its own entry, whatever was written to the file since it
\* loaded; so of two adds that both loaded before either saved, both report
\* success and only one entry is in the final roster.
C13_LastWriterWins ==
    [][ \A b \in Browsers :
          ( /\ inflight[b].pc = "loaded" /\ inflight[b].kind = "add"
            /\ inflight'[b].pc = "done"
            /\ inflight'[b].resp.msg = "Server added successfully!" ) =>
              ServersOf(configFile') =
                  Append(ServersOf(inflight[b].config),
                         TrimmedEntry(inflight[b].form)) ]_vars

\* both browsers were told their (different) server was added, both had
\* loaded the same roster, and the roster holds one entry more, not two
C13_Witness ==
    /\ \A b \in Browsers :
          /\ inflight[b].pc = "done" /\ inflight[b].kind = "add"
          /\ inflight[b].resp.msg = "Server added successfully!"
    /\ inflight["b1"].config = inflight["b2"].config
    /\ inflight["b1"].form # inflight["b2"].form
    /\ Len(ServersOf(configFile)) = Len(ServersOf(inflight["b1"].config)) + 1

----------------------------------------------------------------------------
(* src/wol_gatway.py: load_config() at the start of the process, then the  *)
(* /wake handler.                                                          *)

\* longest log of sent packets the model keeps
MaxWakes == 2

\* str(x) of a decoded JSON value
PyStr(v) ==
    CASE v.t = "str"   -> v.s
      [] v.t = "null"  -> "None"
      [] v.t = "bool"  -> IF v.n = 1 THEN "True" ELSE "False"
      [] v.t = "list"  -> "[]"
      [] v.t = "int" /\ v.n = 12    -> "12"
      [] v.t = "float" /\ v.n = 305 -> "30.5"

\* int(x) of a decoded JSON value: [ok, val, err]; a float is truncated
\* towards zero, a bool is 0 or 1, a str is parsed, None and a list raise
\* TypeError
PyInt(v) ==
    CASE v.t \in {"int", "bool"} -> [ok |-> TRUE, val |-> v.n, err |-> ""]
      [] v.t = "float" ->
            [ ok  |-> TRUE,
              val |-> IF v.n >= 0 THEN v.n \div 10 ELSE 0 - ((0 - v.n) \div 10),
              err |-> "" ]
      [] v.t = "str" ->
            [ ok  |-> ParseInt(v.s).ok, val |-> ParseInt(v.s).val,
              err |-> IF ParseInt(v.s).ok THEN "" ELSE "ValueError" ]
      [] OTHER -> [ok |-> FALSE, val |-> 0, err |-> "TypeError"]

required_keys ==
    {"WOL_MAC_ADDRESS", "BROADCAST_ADDRESS", "SITE_URL", "WAIT_TIME_SECONDS", "PORT"}

\* load_config() raising error (the exception type) with message msg
Raise(error, msg) ==
    [ok |-> FALSE, error |-> error, msg |-> msg, config |-> NoConfig]

\* load_config() on the file: [ok, error, msg, config].  The file's state is
\* "absent", "corrupt" (no JSON), "scalar" (JSON null, true or a number: the
\* test `key not in user_config` raises TypeError), "array" (a JSON list or
\* string: no key is in it) or "ok" (a JSON object)
load_config(file) ==
    LET top       == file.top
        mac       == Strip(PyStr(top.WOL_MAC_ADDRESS))
        broadcast == Strip(PyStr(top.BROADCAST_ADDRESS))
        site      == Strip(PyStr(top.SITE_URL))
        wait      == PyInt(top.WAIT_TIME_SECONDS)
        port      == PyInt(top.PORT)
    IN
    IF file.state = "absent"
    THEN Raise("FileNotFoundError", "Config file WOL_Brige.config is required.")
    ELSE IF file.state = "corrupt"
    THEN Raise("ValueError", "Error parsing WOL_Brige.config")
    ELSE IF file.state = "scalar"
    THEN Raise("TypeError", "argument is not iterable")
    ELSE IF file.state = "array" \/ \E k \in required_keys : top[k].t = "absent"
    THEN Raise("ValueError", "Missing required config keys")
    ELSE IF mac = ""
    THEN Raise("ValueError", "WOL_MAC_ADDRESS must be set in the config file.")
    ELSE IF broadcast = ""
    THEN Raise("ValueError", "BROADCAST_ADDRESS must be set in the config file.")
    ELSE IF site = ""
    THEN Raise("ValueError", "SITE_URL must be set in the config file.")
    ELSE IF ~ wait.ok
    THEN Raise("ValueError", "WAIT_TIME_SECONDS must be an integer.")
    ELSE IF wait.val <= 0
    THEN Raise("ValueError", "WAIT_TIME_SECONDS must be greater than zero.")
    ELSE IF ~ port.ok
    THEN Raise("ValueError", "PORT must be an integer.")
    ELSE IF port.val <= 0 \/ port.val > 65535
    THEN Raise("ValueError", "PORT must be between 1 and 65535.")
    ELSE [ ok |-> TRUE, error |-> "", msg |-> "",
           config |-> [ WOL_MAC_ADDRESS   |-> mac,
                        BROADCAST_ADDRESS |-> broadcast,
                        SITE_URL          |-> site,
                        WAIT_TIME_SECONDS |-> wait.val,
                        PORT              |-> port.val ] ]

\* python wol_gatway.py: config = load_config() at module level; an
\* exception ends the process before the server listens
GatewayStart ==
    /\ gateway.state = "down"
    /\ gateway' = LET r == load_config(configFile) IN
                  IF r.ok
                  THEN [state |-> "up", error |-> "", config |-> r.config]
                  ELSE [state |-> "crashed", error |-> r.error, config |-> NoConfig]
    /\ UNCHANGED <<adminFile, configFile, session, now, totpAvailable, last,
                   inflight, sent, wakeLast, setup>>

\* the operator stops the process (to restart it)
GatewayStop ==
    /\ gateway.state # "down"
    /\ gateway' = GatewayDown
    /\ UNCHANGED <<adminFile, configFile, session, now, totpAvailable, last,
                   inflight, sent, wakeLast, setup>>

\* possible_paths of find_wakeonlan_command, in the order it tries them
possible_paths ==
    << "wakeonlan", "~/.local/bin/wakeonlan", "/usr/bin/wakeonlan",
       "/usr/local/bin/wakeonlan", "/bin/wakeonlan" >>

\* the places where a wakeonlan executable may be installed
Installations == SUBSET { possible_paths[k] : k \in 1..Len(possible_paths) }

\* find_wakeonlan_command(): the first path that is installed, "" for None
find_wakeonlan_command(installed) ==
    LET hits == { k \in 1..Len(possible_paths) : possible_paths[k] \in installed } IN
    IF hits = {} THEN ""
    ELSE possible_paths[CHOOSE k \in hits : \A j \in hits : k <= j]

\* what subprocess.run([cmd, '-i', broadcast, mac], check=True) may do: send
\* the packet and exit 0, exit non-zero (stderr decodable or not), or fail
\* to run at all
RunOutcomes == {"sent", "exit_nonzero", "exit_nonzero_undecodable", "oserror"}

WakeResponse(status, body, wait, url, runs) ==
    [status |-> status, body |-> body, wait |-> wait, url |-> url,
     server |-> 0, runs |-> runs]

\* the page WAITING_PAGE_HTML, built once from the loaded configuration
WaitingPage(cfg, runs) ==
    WakeResponse(200, "waiting_page", cfg.WAIT_TIME_SECONDS, cfg.SITE_URL, runs)

\* mutant: the target is the first roster entry of the file as it is when
\* the request comes in
wake_reading_file(cfg, installed, outcome) ==
    LET cmd    == find_wakeonlan_command(installed)
        target == IF Len(ServersOf(configFile)) > 0
                  THEN ServersOf(configFile)[1]
                  ELSE cfg
    IN
    IF cmd = ""
    THEN [ resp |-> WakeResponse(500, "WOL Error: 'wakeonlan' command not found.", 0, "", 0),
           packets |-> <<>> ]
    ELSE IF outcome = "sent"
    THEN [ resp |-> WaitingPage(target, 1),
           packets |-> << [mac |-> target.WOL_MAC_ADDRESS,
                           broadcast |-> target.BROADCAST_ADDRESS] >> ]
    ELSE [ resp |-> WakeResponse(500, "WOL Error: Could not send packet.", 0, "", 1),
           packets |-> <<>> ]

\* mutant: subprocess.run without check=True, the exit status is ignored
wake_unchecked(cfg, installed, outcome) ==
    LET cmd == find_wakeonlan_command(installed) IN
    IF cmd = ""
    THEN [ resp |-> WakeResponse(500, "WOL Error: 'wakeonlan' command not found.", 0, "", 0),
           packets |-> <<>> ]
    ELSE IF outcome = "oserror"
    THEN [ resp |-> WakeResponse(500, "WOL Error: Unexpected error", 0, "", 1),
           packets |-> <<>> ]
    ELSE [ resp |-> WaitingPage(cfg, 1),
           packets |-> IF outcome = "sent"
                       THEN << [mac |-> cfg.WOL_MAC_ADDRESS,
                                broadcast |-> cfg.BROADCAST_ADDRESS] >>
                       ELSE <<>> ]

\* mutant: a failed wakeonlan run is tried once more
wake_retrying(cfg, installed, outcome) ==
    LET cmd == find_wakeonlan_command(installed) IN
    IF cmd = ""
    THEN [ resp |-> WakeResponse(500, "WOL Error: 'wakeonlan' command not found.", 0, "", 0),
           packets |-> <<>> ]
    ELSE IF outcome = "sent"
    THEN [ resp |-> WaitingPage(cfg, 1),
           packets |-> << [mac |-> cfg.WOL_MAC_ADDRESS,
                           broadcast |-> cfg.BROADCAST_ADDRESS] >> ]
    ELSE [ resp |-> WakeResponse(500, "WOL Error: Could not send packet.", 0, "", 2),
           packets |-> <<>> ]

\* wake_server_and_redirect(): the response (runs counts the wakeonlan runs
\* of the request) and the packets sent
wake_server_and_redirect(cfg, installed, outcome) ==
    LET cmd == find_wakeonlan_command(installed) IN
    IF cmd = ""
    THEN [ resp |-> WakeResponse(500, "WOL Error: 'wakeonlan' command not found.", 0, "", 0),
           packets |-> <<>> ]
    ELSE IF outcome = "sent"
    THEN [ resp |-> WaitingPage(cfg, 1),
           packets |-> << [mac |-> cfg.WOL_MAC_ADDRESS,
                           broadcast |-> cfg.BROADCAST_ADDRESS] >> ]
    ELSE IF outcome = "exit_nonzero"
    THEN [ resp |-> WakeResponse(500, "WOL Error: Could not send packet. Check MAC address", 0, "", 1),
           packets |-> <<>> ]
    ELSE IF outcome = "exit_nonzero_undecodable"   \* e.stderr.decode() raises
    THEN [ resp |-> WakeResponse(500, "Internal Server Error", 0, "", 1),
           packets |-> <<>> ]
    ELSE [ resp |-> WakeResponse(500, "WOL Error: Unexpected error", 0, "", 1),
           packets |-> <<>> ]

\* GET /wake without a query, or GET /wake?server=<index>: the route takes
\* no parameter and the handler reads none
NoTarget == 0 - 1
WakeTargets == {NoTarget} \cup 0..(MaxRoster - 1)

\* the model stops logging at MaxWakes packets
Wake(server, installed, outcome) ==
    /\ gateway.state = "up"
    /\ Len(sent) < MaxWakes
    /\ LET r == wake_server_and_redirect(gateway.config, installed, outcome) IN
       /\ wakeLast' = [r.resp EXCEPT !.server = server]
       /\ sent' = sent \o r.packets
    /\ UNCHANGED <<adminFile, configFile, session, now, totpAvailable, last,
                   inflight, gateway, setup>>

\* a file that holds the roster and the port only
RosterOnlyDoc == [NoTop EXCEPT !.PORT = JInt(5000)]

GatewayFiles ==
    InitConfigFiles \cup
    { [state |-> "ok", hasServers |-> TRUE, servers |-> <<>>, top |-> RosterOnlyDoc] }

GatewayInit ==
    /\ adminFile \in { f \in InitAdminFiles : f.state = "ok" /\ f.cfg.admin_enabled }
    /\ configFile \in GatewayFiles
    /\ session = FALSE
    /\ now = 1
    /\ totpAvailable = "unbound"
    /\ last = Response("start", 0, "", "")
    /\ OffPanelIdle

GatewayNext ==
    \/ \E p \in Passwords : LoginPost("admin", p, NoCode)
    \/ \E f \in Forms : AddServerPost(f)
    \/ \E i \in RoutedIndices, f \in Forms : EditServerPost(i, f)
    \/ \E i \in RoutedIndices : DeleteServer(i)
    \/ GatewayStart
    \/ GatewayStop
    \/ \E t \in WakeTargets, i \in Installations, o \in RunOutcomes : Wake(t, i, o)

GatewaySpec == GatewayInit /\ [][GatewayNext]_vars

\* every /wake request the running gateway may get, with its result
ForEachWake(P(_, _, _)) ==
    gateway.state = "up" =>
        \A i \in Installations, o \in RunOutcomes :
            P(i, o, wake_server_and_redirect(gateway.config, i, o))

\* C14: every GET /wake ends in one of two ways: 200 with the waiting page,
\* only when the wakeonlan run sent the packet and exited 0; or 500 with a
\* message and no waiting page, when no wakeonlan command is found or the
\* run fails.
C14_WakeOutcomes ==
    ForEachWake(LAMBDA i, o, r :
        LET succeeded == i # {} /\ o = "sent" IN
        \/ /\ succeeded
           /\ r.resp.status = 200 /\ r.resp.body = "waiting_page"
        \/ /\ ~ succeeded
           /\ r.resp.status = 500 /\ r.resp.body \notin {"waiting_page", ""}
           /\ r.packets = <<>>)

\* a request whose wakeonlan run exited non-zero was answered 500
C14_Witness ==
    /\ wakeLast.status = 500 /\ wakeLast.runs = 1
    /\ wakeLast.body = "WOL Error: Could not send packet. Check MAC address"

\* C15: a wake request runs the sender at most once, sends exactly one
\* packet when it succeeds and none when it fails; a failed run is reported,
\* not repeated.
C15_SingleSend ==
    /\ ForEachWake(LAMBDA i, o, r :
          /\ r.resp.runs <= 1
          /\ Len(r.packets) <= r.resp.runs
          /\ r.resp.status = 200 => Len(r.packets) = 1
          /\ r.resp.status # 200 => Len(r.packets) = 0)
    /\ Len(sent) > 0 => (gateway.state = "up" =>
          sent[Len(sent)] = [mac |-> gateway.config.WOL_MAC_ADDRESS,
                             broadcast |-> gateway.config.BROADCAST_ADDRESS])

\* two successful wake requests, two packets
C15_Witness ==
    /\ wakeLast.status = 200 /\ wakeLast.runs = 1
    /\ Len(sent) = 2

\* C16: once an entry with URL U, MAC M, broadcast B and wait W is in the
\* roster, a GET /wake for that entry sends the packet to M via B and answers
\* the waiting page that redirects to U after W seconds.
C16_WakeRosterEntry ==
    [][ ( /\ wakeLast' # wakeLast
          /\ wakeLast'.status = 200
          /\ wakeLast'.server \in 0..(Len(ServersOf(configFile)) - 1) ) =>
            LET e == ServersOf(configFile)[wakeLast'.server + 1] IN
            /\ wakeLast'.url = e.SITE_URL
            /\ wakeLast'.wait = e.WAIT_TIME_SECONDS
            /\ sent'[Len(sent')] = [mac |-> e.WOL_MAC_ADDRESS,
                                    broadcast |-> e.BROADCAST_ADDRESS] ]_vars

----------------------------------------------------------------------------
(* src/setup_wol.py: validate_mac and the configuration prompts of main()  *)
(* (lines 897-1076), one action per prompt; an answer that main() turns    *)
(* down brings the same prompt again and changes nothing.                  *)

\* the characters of the strings that stand for a MAC address
Chars(s) ==
    CASE s = "" -> << >>
      [] s = "00:11:22:33:44:55" ->
            <<"0", "0", ":", "1", "1", ":", "2", "2", ":", "3", "3", ":", "4", "4", ":", "5", "5">>
      [] s = "00-11-22-33-44-55" ->
            <<"0", "0", "-", "1", "1", "-", "2", "2", "-", "3", "3", "-", "4", "4", "-", "5", "5">>
      [] s = "aB:cD:eF:01:23:45" ->
            <<"a", "B", ":", "c", "D", ":", "e", "F", ":", "0", "1", ":", "2", "3", ":", "4", "5">>
      [] s = "00:11-22:33-44:55" ->
            <<"0", "0", ":", "1", "1", "-", "2", "2", ":", "3", "3", "-", "4", "4", ":", "5", "5">>
      [] s = "00:11:22:33:44" ->
            <<"0", "0", ":", "1", "1", ":", "2", "2", ":", "3", "3", ":", "4", "4">>
      [] s = "GG:11:22:33:44:55" ->
            <<"G", "G", ":", "1", "1", ":", "2", "2", ":", "3", "3", ":", "4", "4", ":", "5", "5">>
      [] s = "00.11.22.33.44.55" ->
            <<"0", "0", ".", "1", "1", ".", "2", "2", ".", "3", "3", ".", "4", "4", ".", "5", "5">>
      [] s = "0:11:22:33:44:55" ->
            <<"0", ":", "1", "1", ":", "2", "2", ":", "3", "3", ":", "4", "4", ":", "5", "5">>
      [] s = "001122334455" ->
            <<"0", "0", "1", "1", "2", "2", "3", "3", "4", "4", "5", "5">>
      [] s = "not-a-mac" ->
            <<"n", "o", "t", "-", "a", "-", "m", "a", "c">>
      [] s = "None" ->
            <<"N", "o", "n", "e">>
      [] s = "12" ->
            <<"1", "2">>
      [] s = "AA:BB:CC:DD:EE:FF" ->
            <<"A", "A", ":", "B", "B", ":", "C", "C", ":", "D", "D", ":", "E", "E", ":", "F", "F">>
      [] s = " 00:11:22:33:44:55 " ->
            <<" ", "0", "0", ":", "1", "1", ":", "2", "2", ":", "3", "3", ":", "4", "4", ":", "5", "5", " ">>
      [] s = "  " ->
            <<" ", " ">>

HexDigits ==
    { "0", "1", "2", "3", "4", "5", "6", "7", "8", "9",
      "a", "b", "c", "d", "e", "f", "A", "B", "C", "D", "E", "F" }

\* validate_mac: re.match(r"^([0-9A-Fa-f]{2}[:-]){5}([0-9A-Fa-f]{2})$", mac);
\* $ also matches before one final newline
validate_mac(mac) ==
    LET c == Chars(mac) IN
    /\ Len(c) = 17 \/ (Len(c) = 18 /\ c[18] = "\n")
    /\ \A k \in 1..17 :
          IF k % 3 = 0 THEN c[k] \in {":", "-"} ELSE c[k] \in HexDigits

\* bool(x) of a decoded JSON value
Truthy(v) ==
    CASE v.t = "str"                     -> v.s # ""
      [] v.t \in {"int", "float", "bool"} -> v.n # 0
      [] OTHER                           -> FALSE

\* current_config.get(key, default)
ConfigGet(file, key, default) ==
    IF file.state = "ok" /\ file.top[key].t # "absent"
    THEN file.top[key]
    ELSE default

\* the text typed at the prompts (before .strip())
MacTyped ==
    { "", "00:11:22:33:44:55", " 00:11:22:33:44:55 ", "00-11-22-33-44-55",
      "aB:cD:eF:01:23:45", "00:11-22:33-44:55", "00:11:22:33:44",
      "GG:11:22:33:44:55", "00.11.22.33.44.55", "0:11:22:33:44:55",
      "001122334455" }
BroadcastTyped == {"", "192.168.1.255"}
UrlTyped == {"", " http://nas.local "}
WaitTyped == {"", "30", "0", "abc"}
PortTyped == {"", "8080", "65536"}

\* load_current_config() and the defaults (lines 897-904, 938): a file that
\* is absent or no JSON gives {}; a JSON document that is no object has no
\* .get and main() ends with AttributeError
SetupBegin ==
    /\ setup.pc = "idle"
    /\ setup' =
          IF configFile.state \in {"scalar", "array"}
          THEN [setup EXCEPT !.pc = "crashed"]
          ELSE [ setup EXCEPT
                   !.pc = "mac",
                   !.defaults =
                       Doc(ConfigGet(configFile, "WOL_MAC_ADDRESS", JStr("")),
                           ConfigGet(configFile, "BROADCAST_ADDRESS", JStr("255.255.255.255")),
                           ConfigGet(configFile, "SITE_URL", JStr("")),
                           ConfigGet(configFile, "WAIT_TIME_SECONDS", JNull),
                           ConfigGet(configFile, "PORT", JInt(5000))) ]
    /\ UNCHANGED <<adminFile, configFile, session, now, totpAvailable, last,
                   inflight, gateway, sent, wakeLast>>

\* one prompt answered: the field is set and main() moves on
Answered(key, value, next) ==
    /\ setup' = [setup EXCEPT !.new[key] = value, !.pc = next]
    /\ UNCHANGED <<adminFile, configFile, session, now, totpAvailable, last,
                   inflight, gateway, sent, wakeLast>>

\* 1. the MAC address (lines 911-929)
PromptMac(typed) ==
    LET mac == Strip(typed)
        default_mac == setup.defaults.WOL_MAC_ADDRESS
    IN
    /\ setup.pc = "mac"
    /\ IF mac = "" /\ Truthy(default_mac)
       THEN /\ setup' = [setup EXCEPT !.new.WOL_MAC_ADDRESS = default_mac,
                                      !.pc = "broadcast", !.typedMac = FALSE]
            /\ UNCHANGED <<adminFile, configFile, session, now, totpAvailable,
                           last, inflight, gateway, sent, wakeLast>>
       ELSE /\ validate_mac(mac)
            /\ setup' = [setup EXCEPT !.new.WOL_MAC_ADDRESS = JStr(mac),
                                      !.pc = "broadcast", !.typedMac = TRUE]
            /\ UNCHANGED <<adminFile, configFile, session, now, totpAvailable,
                           last, inflight, gateway, sent, wakeLast>>

\* 2. the broadcast address (lines 938-958)
PromptBroadcast(typed) ==
    LET broadcast_input == Strip(typed)
        default_broadcast == setup.defaults.BROADCAST_ADDRESS
    IN
    /\ setup.pc = "broadcast"
    /\ Answered("BROADCAST_ADDRESS",
                IF broadcast_input = "" /\ Truthy(default_broadcast)
                THEN default_broadcast
                ELSE IF broadcast_input # "" THEN JStr(broadcast_input)
                ELSE JStr("255.255.255.255"),
                "url")

\* 3. the site URL (lines 965-982)
PromptUrl(typed) ==
    LET url_input == Strip(typed)
        default_url == setup.defaults.SITE_URL
    IN
    /\ setup.pc = "url"
    /\ (url_input = "" /\ Truthy(default_url)) \/ url_input # ""
    /\ Answered("SITE_URL",
                IF url_input = "" THEN default_url ELSE JStr(url_input),
                "wait")

\* the number a numeric prompt takes: int(default) for an empty answer when a
\* default is stored, int(typed) otherwise; ok = FALSE asks again
PromptInt(typed, default) ==
    IF Strip(typed) = ""
    THEN IF default.t = "null" THEN [ok |-> FALSE, val |-> 0, err |-> "required"]
         ELSE PyInt(default)
    ELSE PyInt(JStr(Strip(typed)))

\* 4. the wait time (lines 990-1021)
PromptWait(typed) ==
    LET wait == PromptInt(typed, setup.defaults.WAIT_TIME_SECONDS) IN
    /\ setup.pc = "wait"
    /\ wait.ok /\ wait.val > 0
    /\ Answered("WAIT_TIME_SECONDS", JInt(wait.val), "port")

\* 5. the port (lines 1029-1058)
PromptPort(typed) ==
    LET port == PromptInt(typed, setup.defaults.PORT) IN
    /\ setup.pc = "port"
    /\ port.ok /\ port.val > 0 /\ port.val <= 65535
    /\ Answered("PORT", JInt(port.val), "save")

\* json.dump(new_config, f) (lines 1064-1076): the file now holds the five
\* keys and nothing else
SetupSave ==
    /\ setup.pc = "save"
    /\ configFile' = [state |-> "ok", hasServers |-> FALSE, servers |-> <<>>,
                      top |-> setup.new]
    /\ setup' = [setup EXCEPT !.pc = "saved"]
    /\ UNCHANGED <<adminFile, session, now, totpAvailable, last,
                   inflight, gateway, sent, wakeLast>>

\* the files main() and load_config() may find: the file of an earlier run,
\* that file with one key edited by hand, no file, and files that are no
\* JSON object
BaseDoc ==
    Doc(JStr("00:11:22:33:44:55"), JStr("255.255.255.255"),
        JStr("http://nas.local"), JInt(30), JInt(5000))

EditedValues(key) ==
    CASE key = "WOL_MAC_ADDRESS" ->
            { JStr("not-a-mac"), JStr("  "), JStr(" 00:11:22:33:44:55 "), JStr(""),
              JStr("00:11-22:33-44:55"), JAbsent }
      [] key = "BROADCAST_ADDRESS" -> { JStr("  "), JStr(""), JAbsent }
      [] key = "SITE_URL" -> { JStr(" http://nas.local "), JStr(""), JAbsent }
      [] key = "WAIT_TIME_SECONDS" ->
            { JInt(0), JInt(0 - 5), JFloat(305), JFloat(5), JStr(" 30 "),
              JStr("abc"), JNull, JList, JAbsent }
      [] key = "PORT" ->
            { JInt(0), JInt(65535), JInt(65536), JFloat(809), JStr("8080"),
              JNull, JAbsent }

SetupFiles ==
    { [state |-> st, hasServers |-> FALSE, servers |-> <<>>, top |-> NoTop] :
          st \in {"absent", "corrupt", "scalar", "array"} }
    \cup { [state |-> "ok", hasServers |-> FALSE, servers |-> <<>>, top |-> d] :
             d \in {BaseDoc, SetupDoc}
                   \cup UNION { { [BaseDoc EXCEPT ![k] = v] : v \in EditedValues(k) } :
                                  k \in required_keys } }

SetupInit ==
    /\ adminFile \in { f \in InitAdminFiles : f.state = "absent" }
    /\ configFile \in SetupFiles
    /\ session = FALSE
    /\ now = 1
    /\ totpAvailable = "unbound"
    /\ last = Response("start", 0, "", "")
    /\ OffPanelIdle

SetupNext ==
    \/ SetupBegin
    \/ \E t \in MacTyped : PromptMac(t)
    \/ \E t \in BroadcastTyped : PromptBroadcast(t)
    \/ \E t \in UrlTyped : PromptUrl(t)
    \/ \E t \in WaitTyped : PromptWait(t)
    \/ \E t \in PortTyped : PromptPort(t)
    \/ SetupSave
    \/ GatewayStart

SetupSpec == SetupInit /\ [][SetupNext]_vars

----------------------------------------------------------------------------
(* Configuration claims *)

\* a JSON value that is an integer: an integer number, a number without a
\* fraction, or a text that spells one
IsInteger(v) ==
    \/ v.t = "int"
    \/ v.t = "float" /\ v.n % 10 = 0
    \/ v.t = "str" /\ ParseInt(v.s).ok

IntegerValue(v) ==
    CASE v.t = "int"   -> v.n
      [] v.t = "float" -> v.n \div 10
      [] v.t = "str"   -> ParseInt(v.s).val

\* the conditions C17 lists for a malformed file
Malformed(file) ==
    \/ file.state = "corrupt"
    \/ file.state = "array"
    \/ /\ file.state = "ok"
       /\ \/ \E k \in required_keys : file.top[k].t = "absent"
          \/ ~ IsInteger(file.top.WAIT_TIME_SECONDS)
          \/ IntegerValue(file.top.WAIT_TIME_SECONDS) <= 0
          \/ ~ IsInteger(file.top.PORT)
          \/ IntegerValue(file.top.PORT) \notin 1..65535

\* C17: load_config fails with a not-found error when the file is absent and
\* with a malformed error (ValueError) when the JSON does not parse, a
\* required key is missing, WAIT_TIME_SECONDS is not an integer or is <= 0,
\* or PORT is not an integer or is outside 1..65535; a config it returns has
\* wait > 0 and 1 <= port <= 65535.
C17_LoadConfigErrors ==
    [][ (gateway.state = "down" /\ gateway'.state # "down") =>
          /\ configFile.state = "absent" =>
                (gateway'.state = "crashed" /\ gateway'.error = "FileNotFoundError")
          /\ Malformed(configFile) =>
                (gateway'.state = "crashed" /\ gateway'.error = "ValueError")
          /\ gateway'.state = "up" =>
                /\ gateway'.config.WAIT_TIME_SECONDS > 0
                /\ gateway'.config.PORT \in 1..65535 ]_vars

\* 12 hexadecimal digits in 6 groups of 2, each separator ':' or '-'
MacShaped(mac) ==
    LET c == Chars(mac) IN
    /\ Len(c) = 17
    /\ \A k \in 1..17 :
          IF k % 3 = 0 THEN c[k] \in {":", "-"} ELSE c[k] \in HexDigits

\* C18: every config load_config returns carries a MAC address of 12
\* hexadecimal digits in 6 groups separated by ':' or '-'.
C18_LoadedMacValid ==
    gateway.state = "up" => MacShaped(gateway.config.WOL_MAC_ADDRESS)

\* 6 groups of 2 hexadecimal digits joined by one separator, ':' throughout
\* or '-' throughout
UniformMac(mac) ==
    LET c == Chars(mac) IN
    /\ Len(c) = 17
    /\ \A k \in 1..17 : k % 3 # 0 => c[k] \in HexDigits
    /\ \E sep \in {":", "-"} : \A k \in {3, 6, 9, 12, 15} : c[k] = sep

\* C19: MAC validation accepts exactly the strings of 6 groups of 2
\* hexadecimal digits joined by one uniform separator: every such string
\* typed at the prompt is accepted, and a typed address that was accepted is
\* of that form.
C19_ValidateMacExact ==
    /\ \A t \in MacTyped : UniformMac(Strip(t)) => validate_mac(Strip(t))
    /\ setup.typedMac => UniformMac(setup.new.WOL_MAC_ADDRESS.s)

\* C20: whatever the answers, typed or taken from the stored defaults, the
\* file the setup tool has saved loads with load_config and every loaded
\* field is exactly the saved one.
C20_RoundTrip ==
    setup.pc = "saved" =>
        LET r == load_config(configFile) IN
        /\ r.ok
        /\ setup.new.WOL_MAC_ADDRESS = JStr(r.config.WOL_MAC_ADDRESS)
        /\ setup.new.BROADCAST_ADDRESS = JStr(r.config.BROADCAST_ADDRESS)
        /\ setup.new.SITE_URL = JStr(r.config.SITE_URL)
        /\ setup.new.WAIT_TIME_SECONDS = JInt(r.config.WAIT_TIME_SECONDS)
        /\ setup.new.PORT = JInt(r.config.PORT)

----------------------------------------------------------------------------
(* The credentials file on a fresh install *)

\* the record of a fresh install
FreshRecord ==
    [ admin_enabled       |-> FALSE,
      admin_username      |-> "admin",
      admin_password_hash |-> "",
      tfa_enabled         |-> FALSE,
      tfa_secret          |-> "" ]

\* C21: with no credentials file, load_admin_config returns the record with
\* admin_enabled = false, empty password hash, 2fa_enabled = false and empty
\* 2fa_secret and leaves it written to the file; from then on login,
\* dashboard, server add, edit, delete and security settings answer 403 and
\* change nothing, and no request of the panel sets admin_enabled.
C21_FreshInstall ==
    LET Forbidden(op, r) ==
            /\ r.resp.status = 403
            /\ r.admin = [state |-> "ok", cfg |-> FreshRecord]
            /\ r.config = configFile
            /\ r.sess = session
    IN
    /\ adminFile.state = "absent" =>
          /\ load_admin_config(adminFile) = FreshRecord
          /\ AfterLoad(adminFile) = [state |-> "ok", cfg |-> FreshRecord]
    /\ (adminFile.state = "absent" \/ adminFile = [state |-> "ok", cfg |-> FreshRecord]) =>
          /\ ForEachLoginRequest(Forbidden)
          /\ ForEachGuardedRequest(Forbidden)
    /\ ForEachRequest(LAMBDA op, r :
          Credentials(r.admin).admin_enabled => Credentials(adminFile).admin_enabled)

\* the first request of a fresh install, a login attempt, was answered 403
\* and left the default record on disk
C21_Witness ==
    /\ adminFile = [state |-> "ok", cfg |-> FreshRecord]
    /\ last.op = "login_post" /\ last.status = 403
    /\ ~ session

----------------------------------------------------------------------------
(* Roster validity and edits *)

\* C23: every entry stored in the roster has a WAIT_TIME_SECONDS that is a
\* positive integer and a WOL_MAC_ADDRESS of 12 hexadecimal digits in 6
\* groups; an add_server or edit_server submission violating either is not
\* stored.
C23_RosterValid ==
    \A k \in 1..Len(ServersOf(configFile)) :
        LET e == ServersOf(configFile)[k] IN
        /\ e.WAIT_TIME_SECONDS > 0
        /\ MacShaped(e.WOL_MAC_ADDRESS)

\* the roster of result r is the current one with entry e at position i
\* (counted from 0) and every other entry where it was
ReplacedAt(i, r, e) ==
    LET old == ServersOf(configFile)
        new == ServersOf(r.config)
    IN
    /\ Len(new) = Len(old)
    /\ new[i + 1] = e
    /\ \A k \in 1..Len(old) : k # i + 1 => new[k] = old[k]

\* the request reaches the body of a roster handler with a valid index i
ValidEdit(i) ==
    /\ Guard(adminFile, session) = "ok"
    /\ configFile.state = "ok"
    /\ i < Len(ServersOf(configFile))

\* C24 (as claimed): an edit_server POST with a valid index i replaces the
\* entry at position i with the submitted fields, the roster keeps its length
\* and every other entry its position and values; a GET changes nothing.
C24_EditReplacesSubmitted ==
    \A i \in RoutedIndices :
        ValidEdit(i) =>
            /\ \A f \in Forms : ReplacedAt(i, edit_server_post(i, f), SubmittedEntry(f))
            /\ edit_server_get(i).config = configFile

\* C24 (amended): an edit_server POST with a valid index i and an integer
\* wait time succeeds; a successful one replaces the entry at position i with
\* the submitted fields, surrounding whitespace removed (an absent broadcast
\* field stored as 255.255.255.255, the wait time as an integer), the roster
\* keeps its length and every other entry its position and values; one with
\* a wait time that is no integer, and a GET, change nothing.
C24_EditReplacesTrimmed ==
    \A i \in RoutedIndices :
        /\ \A f \in Forms :
              LET r == edit_server_post(i, f) IN
              /\ (ValidEdit(i) /\ f.wait_time \in {"30", "0"}) =>
                    r.resp.msg = "Server updated successfully!"
              /\ r.resp.msg = "Server updated successfully!" =>
                    (ValidEdit(i) /\ ReplacedAt(i, r, TrimmedEntry(f)))
              /\ f.wait_time = "abc" => r.config = configFile
        /\ edit_server_get(i).config = configFile

\* the first of two entries was replaced by one submitted with padding
\* around its name, the second is where it was
C24_Witness ==
    /\ last.op = "edit_post" /\ last.msg = "Server updated successfully!"
    /\ Len(ServersOf(configFile)) = 2
    /\ ServersOf(configFile)[1].NAME = "PC"
    /\ ServersOf(configFile)[2].NAME = "NAS"

----------------------------------------------------------------------------
(* Two delete requests at once, sent from dashboard pages: the roster file *)
(* holds what earlier add_server requests stored.                          *)

\* the rosters add_server builds from the forms it accepts, up to MaxRoster
\* entries
StoredEntries == { ServerEntry(f) : f \in { g \in Forms : WaitOf(g).ok } }

Rosters == UNION { [1..n -> StoredEntries] : n \in 0..MaxRoster }

DeleteRaceInit ==
    /\ adminFile \in { f \in InitAdminFiles : f.state = "ok" /\ f.cfg.admin_enabled }
    /\ configFile \in { [state |-> "ok", hasServers |-> TRUE, servers |-> r,
                         top |-> SetupDoc] : r \in Rosters }
    /\ session = FALSE
    /\ now = 1
    /\ totpAvailable = "unbound"
    /\ last = Response("start", 0, "", "")
    /\ inflight = [b \in Browsers |-> IdleRequest]
    /\ gateway = GatewayDown
    /\ sent = <<>>
    /\ wakeLast = NoWake
    /\ setup = SetupIdle

DeleteRaceNext ==
    \/ \E p \in Passwords : LoginPost("admin", p, NoCode)
    \/ \E b \in Browsers : ViewDashboard(b)
    \/ \E b \in Browsers, i \in RoutedIndices : DeleteLoad(b, i)
    \/ \E b \in Browsers : DeleteSave(b)
    \/ \E b \in Browsers : RequestReturn(b)

DeleteRaceSpec == DeleteRaceInit /\ [][DeleteRaceNext]_vars

\* browser b is about to save a delete of position i sent from a page that
\* listed roster V, of at least i + 2 entries; the other browser's delete of
\* position i, sent from a page listing the same roster, has succeeded, and
\* the file holds V without the entry at i
SecondDelete(b, V, i) ==
    /\ inflight[b].pc = "loaded" /\ inflight[b].kind = "delete"
    /\ inflight'[b].pc = "done"
    /\ inflight[b].view = V /\ inflight[b].server_id = i
    /\ Len(V) >= i + 2
    /\ ServersOf(configFile) = Pop(V, i)
    /\ \E o \in Browsers \ {b} :
          /\ inflight[o].pc = "done" /\ inflight[o].kind = "delete"
          /\ inflight[o].resp.msg = "Server deleted successfully!"
          /\ inflight[o].view = V /\ inflight[o].server_id = i

\* C25 (as claimed): of two delete requests for the same index i sent from
\* the same dashboard view of a roster with at least i + 2 entries, both
\* succeed and two entries are removed, the one shown at i and the one shown
\* at i + 1.
C25_TwoDeletesRemoveTwo ==
    [][ \A b \in Browsers, V \in Rosters, i \in RoutedIndices :
          SecondDelete(b, V, i) =>
              /\ inflight'[b].resp.msg = "Server deleted successfully!"
              /\ ServersOf(configFile') = Pop(Pop(V, i), i) ]_vars

\* C25 (amended): the index is resolved against the roster the request
\* loads, not the one the page showed.  Both deletes succeed; when the second
\* loads after the first has saved, two entries are removed, the one shown at
\* i and the one shown at i + 1; when the second loaded before the first
\* saved, only the entry shown at i is removed.
C25_DeleteAtRequestTime ==
    [][ \A b \in Browsers, V \in Rosters, i \in RoutedIndices :
          SecondDelete(b, V, i) =>
              LET loaded == ServersOf(inflight[b].config) IN
              /\ inflight'[b].resp.msg = "Server deleted successfully!"
              /\ loaded = Pop(V, i) => ServersOf(configFile') = Pop(Pop(V, i), i)
              /\ loaded = V => ServersOf(configFile') = Pop(V, i) ]_vars

\* both pages listed NAS before PC, both deletes of position 0 succeeded one
\* after the other, and PC, which neither page showed at 0, is gone too
C25_Witness ==
    /\ \A b \in Browsers :
          /\ inflight[b].pc = "done" /\ inflight[b].kind = "delete"
          /\ inflight[b].resp.msg = "Server deleted successfully!"
          /\ inflight[b].server_id = 0
          /\ Len(inflight[b].view) = 2
          /\ inflight[b].view[1].NAME = "NAS" /\ inflight[b].view[2].NAME = "PC"
    /\ \E b \in Browsers : ServersOf(inflight[b].config) = Pop(inflight[b].view, 0)
    /\ ServersOf(configFile) = <<>>

----------------------------------------------------------------------------
(* The gateway and the admin panel on the same roster file *)

\* what the running gateway answers to each GET /wake, and the packets it
\* sends for it
WakeBehaviour ==
    [ i \in Installations, o \in RunOutcomes |->
        wake_server_and_redirect(gateway.config, i, o) ]

\* C26: while the gateway process runs, the loaded configuration stays as it
\* is and no add, edit or delete request of the admin panel changes what
\* GET /wake does: a successful wake sends to the MAC and broadcast address
\* loaded at startup and returns the page with the startup wait time and
\* URL; wake behaviour changes only over a restart of the process.
C26_WakeFixedAtStartup ==
    [][ /\ (gateway.state = "up" /\ gateway'.state = "up") =>
              /\ gateway'.config = gateway.config
              /\ configFile' # configFile => WakeBehaviour' = WakeBehaviour
        /\ (gateway.state = "up" /\ wakeLast' # wakeLast /\ wakeLast'.status = 200) =>
              /\ wakeLast'.wait = gateway.config.WAIT_TIME_SECONDS
              /\ wakeLast'.url = gateway.config.SITE_URL
              /\ sent' = Append(sent, [mac |-> gateway.config.WOL_MAC_ADDRESS,
                                       broadcast |-> gateway.config.BROADCAST_ADDRESS]) ]_vars

\* the roster was built and cut back by the panel, its first entry names
\* another machine than the startup configuration, and the running gateway
\* has sent its packet to the startup MAC
C26_Witness ==
    /\ gateway.state = "up"
    /\ last.op = "delete" /\ last.msg = "Server deleted successfully!"
    /\ Len(ServersOf(configFile)) = 1
    /\ ServersOf(configFile)[1].WOL_MAC_ADDRESS # gateway.config.WOL_MAC_ADDRESS
    /\ wakeLast.status = 200 /\ wakeLast.url = gateway.config.SITE_URL
    /\ Len(sent) > 0
    /\ sent[Len(sent)].mac = gateway.config.WOL_MAC_ADDRESS

----------------------------------------------------------------------------
(* Two security_settings requests at once.  A POST runs in two steps:      *)
(* login_required and load_admin_config() (line 258), then the action's    *)
(* checks on the loaded copy and save_admin_config(admin_config).  The     *)
(* steps of the two browsers interleave freely, the code takes no lock.    *)

\* the fields of a security_settings form
SecurityForm(action, current_password, new_password, confirm_password, totp_code, password) ==
    [ action |-> action, current_password |-> current_password,
      new_password |-> new_password, confirm_password |-> confirm_password,
      totp_code |-> totp_code, password |-> password ]

\* the forms the two browsers submit
SecurityForms ==
    { SecurityForm("change_password", "hunter22", new, "abcdef", NoCode, "") :
          new \in {"abcdef", "abc12"} }
    \cup { SecurityForm("enable_2fa", "", "", "", NoCode, "") }
    \cup { SecurityForm("verify_2fa", "", "", "", c, "") : c \in {NoCode, 0, 2} }
    \cup { SecurityForm("disable_2fa", "", "", "", NoCode, "hunter22") }

\* security_settings, first step (lines 255-261): [pc, kind, form,
\* admin_config, secret, resp]; secret is what pyotp.random_base32() gives
\* an enable_2fa request
security_load(form, secret) ==
    LET g   == Guard(adminFile, session)
        req == [ pc |-> "idle", kind |-> form.action, form |-> form,
                 admin_config |-> DefaultAdminConfig, secret |-> secret,
                 resp |-> NoResponse ]
    IN
    IF g # "ok" THEN DoneRequest(req, Refusal(form.action, g))
    ELSE [req EXCEPT !.pc = "loaded", !.admin_config = load_admin_config(adminFile)]

\* the response of the second step and the credentials file it leaves
Saved(op, msg, admin_config) ==
    [ resp  |-> Response(op, 302, "admin.security_settings", msg),
      admin |-> save_admin_config(admin_config) ]

NotSaved(op, status, msg, file) ==
    [ resp  |-> Response(op, status,
                         IF status = 302 THEN "admin.security_settings" ELSE "", msg),
      admin |-> file ]

\* the action of a security_settings POST (lines 263-327) on the record c,
\* with file the credentials file as the step finds it
security_apply(req, c, file) ==
    LET f == req.form IN
    CASE req.kind = "change_password" ->
            IF ~ verify_password(f.current_password, c.admin_password_hash)
            THEN NotSaved(req.kind, 302, "Current password is incorrect", file)
            ELSE IF f.new_password # f.confirm_password
            THEN NotSaved(req.kind, 302, "New passwords do not match", file)
            ELSE IF PasswordLen(f.new_password) < MinPasswordLen
            THEN NotSaved(req.kind, 302, "Password must be at least 6 characters", file)
            ELSE Saved(req.kind, "Password changed successfully",
                       [c EXCEPT !.admin_password_hash = hash_password(f.new_password)])
      [] req.kind = "enable_2fa" ->
            IF totpAvailable = "unbound"
            THEN NotSaved(req.kind, 500, "NameError", file)
            ELSE IF totpAvailable = "false"
            THEN NotSaved(req.kind, 302, "2FA requires pyotp and qrcode packages.", file)
            ELSE [ resp  |-> Response(req.kind, 200, "", "setup_2fa"),
                   admin |-> save_admin_config([c EXCEPT !.tfa_secret = req.secret,
                                                         !.tfa_enabled = FALSE]) ]
      [] req.kind = "verify_2fa" ->
            IF TotpVerify(c.tfa_secret, f.totp_code, now)
            THEN Saved(req.kind, "2FA enabled successfully",
                       [c EXCEPT !.tfa_enabled = TRUE])
            ELSE NotSaved(req.kind, 302, "Invalid 2FA code. Please try again.", file)
      [] req.kind = "disable_2fa" ->
            IF verify_password(f.password, c.admin_password_hash)
            THEN Saved(req.kind, "2FA disabled successfully",
                       [c EXCEPT !.tfa_enabled = FALSE, !.tfa_secret = ""])
            ELSE NotSaved(req.kind, 302, "Incorrect password", file)

\* mutant: the record is read again right before it is changed and written
security_save_merging(req, file) ==
    security_apply(req, load_admin_config(file), file)

\* security_settings, second step: the action works on the copy loaded in
\* the first step
security_save(req, file) ==
    security_apply(req, req.admin_config, file)

\* random_base32() returns a fresh secret: never the stored one
SecurityLoad(b, form, secret) ==
    /\ inflight[b].pc = "idle"
    /\ IF form.action = "enable_2fa"
       THEN secret # load_admin_config(adminFile).tfa_secret
       ELSE secret = ""
    /\ inflight' = [inflight EXCEPT ![b] = security_load(form, secret)]
    /\ adminFile' = AfterLoad(adminFile)
    /\ UNCHANGED <<configFile, session, now, totpAvailable, last,
                   gateway, sent, wakeLast, setup>>

SecuritySave(b) ==
    /\ inflight[b].pc = "loaded"
    /\ LET r == security_save(inflight[b], adminFile) IN
       /\ inflight' = [inflight EXCEPT ![b] = DoneRequest(@, r.resp)]
       /\ adminFile' = r.admin
    /\ UNCHANGED <<configFile, session, now, totpAvailable, last,
                   gateway, sent, wakeLast, setup>>

\* the application that hosts the blueprint has bound TOTP_AVAILABLE
SecurityRaceInit ==
    /\ adminFile \in { f \in InitAdminFiles : f.state = "ok" /\ f.cfg.admin_enabled }
    /\ configFile \in { f \in InitConfigFiles : f.hasServers }
    /\ session = FALSE
    /\ now = 1
    /\ totpAvailable = "true"
    /\ last = Response("start", 0, "", "")
    /\ inflight = [b \in Browsers |-> IdleRequest]
    /\ gateway = GatewayDown
    /\ sent = <<>>
    /\ wakeLast = NoWake
    /\ setup = SetupIdle

SecurityRaceNext ==
    \/ \E p \in {"hunter22", "abcdef"} : LoginPost("admin", p, NoCode)
    \/ \E b \in Browsers, f \in SecurityForms, s \in Secrets \cup {""} :
          SecurityLoad(b, f, s)
    \/ \E b \in Browsers : SecuritySave(b)
    \/ \E b \in Browsers : RequestReturn(b)

SecurityRaceSpec == SecurityRaceInit /\ [][SecurityRaceNext]_vars

\* the record a successful request of the given form makes of record c
OwnChange(c, form) ==
    CASE form.action = "change_password" ->
            [c EXCEPT !.admin_password_hash = hash_password(form.new_password)]
      [] form.action = "verify_2fa" -> [c EXCEPT !.tfa_enabled = TRUE]
      [] form.action = "disable_2fa" ->
            [c EXCEPT !.tfa_enabled = FALSE, !.tfa_secret = ""]

SuccessMessages ==
    { "Password changed successfully", "2FA enabled successfully",
      "2FA disabled successfully" }

\* C27: the credentials file is changed by an unlocked read-modify-write, the
\* last writer wins: a security_settings request that reports success leaves
\* in the file the record it loaded with its own change and nothing else,
\* whatever was written since it loaded; so of a change_password and a
\* verify_2fa that both loaded before either saved, both report success and
\* the change of the first to save is gone.
C27_CredentialsLastWriterWins ==
    [][ \A b \in Browsers :
          ( /\ inflight[b].pc = "loaded"
            /\ inflight'[b].pc = "done"
            /\ inflight'[b].resp.msg \in SuccessMessages ) =>
              Credentials(adminFile') =
                  OwnChange(inflight[b].admin_config, inflight[b].form) ]_vars

\* both browsers were told of their success, a password change and a
\* verification of the pending secret; both had loaded the same record; the
\* file has the second factor on and the old password
C27_Witness ==
    /\ inflight["b1"].pc = "done" /\ inflight["b1"].kind = "change_password"
    /\ inflight["b1"].resp.msg = "Password changed successfully"
    /\ inflight["b2"].pc = "done" /\ inflight["b2"].kind = "verify_2fa"
    /\ inflight["b2"].resp.msg = "2FA enabled successfully"
    /\ inflight["b1"].admin_config = inflight["b2"].admin_config
    /\ adminFile.cfg.tfa_enabled /\ adminFile.cfg.tfa_secret \in Secrets
    /\ adminFile.cfg.admin_password_hash = inflight["b1"].admin_config.admin_password_hash
    /\ adminFile.cfg.admin_password_hash
          # hash_password(inflight["b1"].form.new_password)

----------------------------------------------------------------------------
(* The second factor and its secret *)

\* C28: whenever 2fa_enabled is true, 2fa_secret is a secret that an
\* enable_2fa request generated; a verify_2fa request submitted while
\* 2fa_secret is empty does not set 2fa_enabled.
C28_EnabledHasSecret ==
    LET cfg == Credentials(adminFile) IN
    /\ cfg.tfa_enabled => cfg.tfa_secret \in Secrets
    /\ cfg.tfa_secret = "" =>
          \A c \in SubmittedCodes : ~ Credentials(verify_2fa(c).admin).tfa_enabled

----------------------------------------------------------------------------
(* Roster requests that fail *)

\* the response is an error: no page, no redirect to the dashboard
IsError(resp) == resp.status \in {403, 404, 500} \/ resp.loc = "admin.login"

\* C29: an add_server or edit_server POST whose wait_time is no integer ends
\* in an error and leaves the roster file exactly as it was; where the
\* handler gets as far as the conversion, the error is the 500 of the
\* ValueError.
C29_BadWaitNoWrite ==
    \A f \in Forms :
        f.wait_time = "abc" =>
            /\ LET r == add_server_post(f) IN
               /\ r.config = configFile
               /\ IsError(r.resp)
               /\ (Guard(adminFile, session) = "ok" /\ configFile.state = "ok") =>
                     (r.resp.status = 500 /\ r.resp.msg = "ValueError")
            /\ \A i \in RoutedIndices :
                  LET r == edit_server_post(i, f) IN
                  /\ r.config = configFile
                  /\ IsError(r.resp)
                  /\ ValidEdit(i) =>
                        (r.resp.status = 500 /\ r.resp.msg = "ValueError")

\* an add with wait_time "abc" ended in the ValueError and the roster still
\* holds its one entry
C29_Witness ==
    /\ last.op = "add_post" /\ last.status = 500 /\ last.msg = "ValueError"
    /\ Len(ServersOf(configFile)) = 1

\* C30: on a legacy single-server config (the five flattened keys as the
\* setup tool writes them, no SERVERS key) an add_server POST of the
\* logged-in admin with valid fields succeeds, the roster then holds the new
\* entry, and the flattened fields are unchanged.
C30_AddOnLegacyConfig ==
    ( /\ Guard(adminFile, session) = "ok"
      /\ configFile.state = "ok" /\ ~ configFile.hasServers ) =>
        LET r == add_server_post(FormNAS) IN
        /\ r.resp.msg = "Server added successfully!"
        /\ ServersOf(r.config) = <<TrimmedEntry(FormNAS)>>
        /\ r.config.top = configFile.top

====
